---- MODULE Spec2Model ----
(***************************************************************************)
(* Model of the real-time event and capture engine of                      *)
(* NazareinsTwitchDownloader: the Recorder Pool (DownloadService), the     *)
(* Token Manager (TokenManager), the Push Subscription Manager             *)
(* (EventSubService) and the Supervisor (StreamMonitorService).            *)
(*                                                                         *)
(* Each component has a specification of its own over the shared           *)
(* variables: SpecDL (recorder pool), SpecTM (token manager with the       *)
(* supervisor's refresh observer), SpecES (push subscriptions).            *)
(* asyncio is cooperative: an action is the code a task runs between two   *)
(* suspension points (await), so a task's pc names the await it is         *)
(* parked on.                                                              *)
(***************************************************************************)
EXTENDS Integers, Sequences, FiniteSets, Bags, TLC

VARIABLES
    \* ---- shared: wall clock and roster (settings.py) ----
    now,                  \* time.time(), in seconds
    isLive,               \* roster field "isLive" per channel
    \* ---- DownloadService ----
    active_downloads,     \* channel -> worker (thread) of its Recording Job
    download_cooldowns,   \* channel -> not-before timestamp
    download_lock,        \* task holding download_lock, or "free"
    configured_streamers, \* channels with downloads enabled
    workers,              \* worker id -> [chan, st, cancel]
    dtask,                \* task -> [pc, chan] position inside the pool's code
    outcome,              \* [task, how]: the call that returned last and how
    \* ---- TokenManager, with the supervisor's observer and the push service ----
    tokens,               \* [access_token, expires_at]: token number, expiry in ms
    refresh_lock,         \* task holding refresh_lock, or "free"
    refresh_task,         \* the scheduled timer task: [st, due]
    ttask,                \* task -> [pc, seen, cancel] position inside refresh code
    es_running,           \* EventSubService.running
    es_token,             \* EventSubService.token
    conn_alive,           \* a push connection task exists
    validated,            \* newest token number that validate_token accepted
    completed,            \* observer runs that reached their end
    lastget,              \* the latest get_access_token call: who called, with
                          \* what, the token held then, whether a refresh was
                          \* triggered, the token returned at once
    \* ---- EventSubService (one connection, connection_id 0) ----
    streamers,            \* roster: the monitored channels, by Twitch user id
    ws_status,            \* ws_connections[0]["status"]
    cpc,                  \* the connection task's position in _handle_connection
    connection_session_id,\* the task's local connection_session_id
    batch,                \* the task's "streamers" argument: user id -> is_online
    session_ids,          \* list of known session ids
    active_subscriptions, \* user id -> [event_type, session_id]
    subscriptions_by_session, \* session id -> (user id -> event_type)
    reconnect_urls,       \* a reconnect URL is stored for the connection
    sessions_issued,      \* session ids handed out by Twitch so far
    wtask,                \* the web task: [pc, user, is_live]
    \* ---- persistence: token.json, streamers.json and its temporary file ----
    files,                \* file name -> [st, v]: how much of which version it holds
    fw,                   \* the save in progress: [who, pc, target, v]
    attempt,              \* the latest refresh attempt, with the bundle before and after
    observed,             \* what a reader of a file saw last: [name, content]
    \* ---- Supervisor (StreamMonitorService), supervise-tick ----
    recent_recoveries,    \* repair name -> time of the latest recovery
    \* ---- _handle_connection, the retry loop of one connection task ----
    loop_pc,              \* the task's position in the retry loop
    running,              \* EventSubService.running as the task reads it
    conn_status,          \* the connection's "status"
    retry_count,          \* the task's local retry_count
    retry_delay,          \* the task's local retry_delay, in 1 / DelayUnit s
    reconnect_url,        \* reconnect_urls[connection_id], NoUrl when absent
    ws_url,               \* the URL of the latest dial
    frame_url,            \* URL of the reconnect frame received since that dial
    url_dials,            \* reconnect URL -> number of dials that used it
    frames,               \* reconnect frames sent by Twitch so far
    failed_dials,         \* dials since the latest welcome that ended unwelcomed
    task_no,              \* tasks started by _check_connections so far
    \* ---- EventSubService with two connections ----
    ws_connections,       \* connection id -> [pc, session_id] of its task
    twitch_subs,          \* Twitch's list of subscriptions: [user, session_id]
    conflicts,            \* channels whose latest create request was answered 409
    svpc,                 \* the supervision loop's position within a tick
    restarts,             \* times of the latest two restarts of the push service
                          \* the supervisor triggered
    revoked,              \* the latest revocation: [user, st], st telling whether
                          \* a whole tick has run since
    \* ---- set-roster (WebHandlers.update_streamers) ----
    noid,                 \* roster channels whose "twitch_id" is empty
    pending,              \* bag of the tasks created and not yet run:
                          \* [kind, user, is_live]
    requests,             \* [n, last, again]: the number of rosters sent, the
                          \* latest, and whether it repeated the one before
    \* ---- naming policy (start_download) ----
    dir,                  \* the files of the channel directory: [base, counter]
    stream_title,         \* the title the latest name was made from
    filepath,             \* the latest destination path computed
    named,                \* the number of paths computed
    \* ---- recording threads (_download_stream_thread) ----
    threads,              \* thread id -> [st, filepath, cancel, started, stopped]
    opened,               \* the open(filepath, "wb") calls made: [w, filepath]
    stopping,             \* a stop_download call is in its 0.5 s sleep
    \* ---- channel title (notifications and poll) ----
    roster_entry,         \* the channel's entry of the roster file:
                          \* [isLive, title, lastTitle]
    channel_info,         \* what Twitch reports for the channel: [stream, title]
    event_type,           \* the type of the channel's subscription
    inbox,                \* the notification received and not yet handled:
                          \* [kind, known, stream_type]
    last_handled,         \* the notification handled last
    title_before,         \* the roster title when the latest stream.offline
                          \* notification was handled
    phase,                \* "ended" after a handled stream.offline, "started"
                          \* after the stream.online that followed it
    poll,                 \* _update_all_streamers: [pc, settings], the entry it
    \* ---- the desired-recording flag of the roster ----
    downloads_enabled,    \* roster channel -> its "downloads_enabled"
    \* ---- EventSubService.pending_unsubscribes ----
    pending_unsubscribes, \* ids of the remove calls in progress
    connection_tasks,     \* connection tasks on the service's list
    putask,               \* connection tasks: pc, channel being removed, cancel requested
    web_call,             \* the remove call made for a removed channel
    cancelled_in_remove,  \* channels whose remove call was cancelled
    \* ---- Restarts of the push service ----
    service_running,      \* EventSubService.running
    connection_manager_task,\* number of the manager task the service names
    manager_tasks,        \* manager tasks that have not ended
    managers_started,     \* manager tasks created so far
    alive_tasks,          \* connection tasks that have not ended
    ws_list,              \* connection tasks on connection_tasks / ws_connections
    tasks_created,        \* connection tasks created so far
    restart_pc            \* where each restart is
                          \* read before awaiting the channel query

dlvars == <<active_downloads, download_cooldowns, download_lock,
            configured_streamers, workers, dtask, outcome>>

tmvars == <<tokens, refresh_lock, refresh_task, ttask, es_running, es_token,
            conn_alive, validated, completed, lastget>>

esvars == <<streamers, ws_status, cpc, connection_session_id, batch, session_ids,
            active_subscriptions, subscriptions_by_session, reconnect_urls,
            sessions_issued, wtask>>

pvars == <<files, fw, attempt, observed>>

(* Variables of the sections after the push service. *)
svvars == <<recent_recoveries, svpc, restarts, revoked>>

rvars == <<noid, pending, requests>>

nvars == <<dir, stream_title, filepath, named>>

rcvars == <<threads, opened, stopping>>

tivars == <<roster_entry, channel_info, event_type, inbox, last_handled,
           title_before, phase, poll>>

cnvars == <<loop_pc, running, conn_status, retry_count, retry_delay,
           reconnect_url, ws_url, frame_url, url_dials, frames, failed_dials,
           task_no>>

suvars == <<ws_connections, twitch_subs, conflicts>>

envars == <<downloads_enabled>>

puvars == <<pending_unsubscribes, connection_tasks, putask, web_call, cancelled_in_remove>>

rsvars == <<service_running, connection_manager_task, manager_tasks, managers_started, alive_tasks, ws_list, tasks_created, restart_pc>>

addvars == <<pvars, svvars, rvars, nvars, rcvars, tivars, cnvars, suvars, envars, puvars, rsvars>>

(* Variables the recorder pool never touches. *)
NotDL == <<tmvars, esvars, addvars>>

(* Variables the token manager never touches. *)
NotTM == <<isLive, dlvars, esvars, addvars>>

(* Variables the push service never touches. *)
NotES == <<now, dlvars, tmvars, addvars>>

vars == <<now, isLive, dlvars, tmvars, esvars, addvars>>
----------------------------------------------------------------------------
(* Bounds of the model *)

MaxTime == 30
MaxWorkers == 2
MaxTimeTM == 3600
MaxRefresh == 2
MaxUsers == 9
MaxSessions == 2
MaxSaves == 2
MaxTimeSV == 3600
MaxRequests == 3
MaxNamed == 4

(* Program constants *)

cooldown_duration == 30
refresh_buffer == 1800
default_expires_in == 14400
batch_size == 5
session_limit == 8

(* eventsub_service.py 275, 276, 534: the retry loop of a connection. *)
max_retries == 15

initial_retry_delay == 2

retry_cap == 300

Channels == {"alice"}

NoChan == "none"

----------------------------------------------------------------------------
(* Helpers for Python dicts: functions with a changing domain. *)

DictDel(d, k) == [x \in (DOMAIN d) \ {k} |-> d[x]]

DictSet(d, k, v) == [x \in (DOMAIN d) \cup {k} |-> IF x = k THEN v ELSE d[x]]

EmptyDict == [x \in {} |-> 0]

----------------------------------------------------------------------------
(* DownloadService (Recorder Pool) *)

DLTasks == {"monitor", "supervisor", "web"}

WorkerIds == 1 .. MaxWorkers

UnusedWorker == [chan |-> NoChan, st |-> "unused", cancel |-> FALSE]

EndedWorker == [chan |-> NoChan, st |-> "done", cancel |-> FALSE]

InitDL ==
    /\ now = 0
    /\ isLive \in [Channels -> BOOLEAN]
    /\ active_downloads = EmptyDict
    /\ download_cooldowns = EmptyDict
    /\ download_lock = "free"
    /\ configured_streamers \in SUBSET Channels
    /\ workers = [w \in WorkerIds |-> UnusedWorker]
    /\ dtask = [t \in DLTasks |-> [pc |-> "idle", chan |-> NoChan]]
    /\ outcome = [task |-> "none", how |-> "none"]

(* The recorder pool at rest, for the runs of the other components. *)
IdleDL ==
    /\ active_downloads = EmptyDict
    /\ download_cooldowns = EmptyDict
    /\ download_lock = "free"
    /\ configured_streamers = {}
    /\ workers = [w \in WorkerIds |-> UnusedWorker]
    /\ dtask = [t \in DLTasks |-> [pc |-> "idle", chan |-> NoChan]]
    /\ outcome = [task |-> "none", how |-> "none"]

(* The clock of the recorder pool's runs advances by one cooldown period. *)
TickDL ==
    /\ now + cooldown_duration <= MaxTime
    /\ now' = now + cooldown_duration
    /\ UNCHANGED <<isLive, dlvars, NotDL>>

(* download_service.py 137: a job is already tracked for the channel. *)
AlreadyDownloading_NoCheck(c) == FALSE

AlreadyDownloading_Always(c) == TRUE

AlreadyDownloading(c) == c \in DOMAIN active_downloads

(* download_service.py 143 / background_service.py 460: cooldown not expired. *)
InCooldown_Ignored(c, t) == FALSE

InCooldown(c, t) == c \in DOMAIN download_cooldowns /\ t < download_cooldowns[c]

FreeWorkers == {w \in WorkerIds : workers[w].st = "unused"}

NextWorker == CHOOSE w \in FreeWorkers : \A v \in FreeWorkers : w <= v

Goto(t, p, c) == dtask' = [dtask EXCEPT ![t] = [pc |-> p, chan |-> c]]

Return(t, how) ==
    /\ dtask' = [dtask EXCEPT ![t] = [pc |-> "idle", chan |-> NoChan]]
    /\ outcome' = [task |-> t, how |-> how]

(* A caller reaches "async with self.download_lock" of start_download. *)
CallStart(t, c) ==
    /\ dtask[t].pc = "idle"
    /\ Goto(t, "lock", c)
    /\ UNCHANGED outcome
    /\ UNCHANGED <<now, isLive, active_downloads, download_cooldowns,
                   download_lock, configured_streamers, workers, NotDL>>

(* _check_downloads, second loop: enabled, live, not yet recording. *)
MonitorStart(c) ==
    /\ c \in configured_streamers
    /\ isLive[c]
    /\ c \notin DOMAIN active_downloads
    /\ CallStart("monitor", c)

(* _check_download_service 448-466: downloads_enabled in the roster, live,
   no job, no active cooldown. *)
SupervisorStart(c) ==
    /\ c \in configured_streamers
    /\ isLive[c]
    /\ c \notin DOMAIN active_downloads
    /\ ~InCooldown(c, now)
    /\ CallStart("supervisor", c)

(* handlers.start_download: the operator's manual start of a live channel. *)
WebStart(c) ==
    /\ isLive[c]
    /\ CallStart("web", c)

(* Lines 354-370: create the Event, start the thread, record the job. There
   is no await between them. The Event stored in cancellation_flags and the
   thread stored in active_downloads belong to the same worker. *)
LaunchWorker(t, c) ==
    /\ FreeWorkers # {}
    /\ workers' = [workers EXCEPT ![NextWorker] =
                      [chan |-> c, st |-> "running", cancel |-> FALSE]]
    /\ active_downloads' = DictSet(active_downloads, c, NextWorker)
    /\ Goto(t, "notify", c)

(* start_download, from taking the lock to the first await (135-164): the
   duplicate check and the cooldown check run as soon as the lock is held. *)
StartCheck(t) ==
    /\ dtask[t].pc = "lock"
    /\ download_lock = "free"
    /\ LET c == dtask[t].chan IN
         IF AlreadyDownloading(c)
         THEN /\ Return(t, "duplicate")
              /\ UNCHANGED download_lock
         ELSE IF InCooldown(c, now)
         THEN /\ Return(t, "cooldown")
              /\ UNCHANGED download_lock
         ELSE /\ download_lock' = t
              /\ Goto(t, "live", c)
              /\ UNCHANGED outcome
    /\ UNCHANGED <<now, isLive, active_downloads, download_cooldowns,
                   configured_streamers, workers, NotDL>>

(* start_download 148-382: the answers of the fresh live query and, when the
   cached title is unusable, of the title query have arrived (the lock is held
   across both awaits). An empty answer (a failed query) is handled like "no
   stream": the roster is marked offline. Without a twitch_id the query is
   skipped (162), and a query that raises is only logged (184-185): in both
   cases the start goes on. An unresolved title abandons the start.
   Otherwise the worker is launched; the outcome tells whether the query had
   answered "live". *)
StartLive(t, res, titleOk) ==
    /\ dtask[t].pc = "live"
    /\ LET c == dtask[t].chan IN
         IF res \in {"offline", "fail"}
         THEN /\ isLive' = [isLive EXCEPT ![c] = FALSE]
              /\ Goto(t, "notify", c)
              /\ outcome' = [task |-> t, how |-> "offline"]
              /\ UNCHANGED <<active_downloads, workers>>
         ELSE IF titleOk
         THEN /\ LaunchWorker(t, c)
              /\ outcome' = [task |-> t,
                             how  |-> IF res = "live" THEN "started"
                                      ELSE "unverified"]
              /\ UNCHANGED isLive
         ELSE /\ Goto(t, "notify", c)
              /\ outcome' = [task |-> t, how |-> "title"]
              /\ UNCHANGED <<isLive, active_downloads, workers>>
    /\ UNCHANGED <<now, download_cooldowns, download_lock, configured_streamers,
                   NotDL>>

(* The broadcast awaited on every path ends; start_download returns and
   "async with" releases the lock. *)
StartReturn(t) ==
    /\ dtask[t].pc = "notify"
    /\ download_lock' = "free"
    /\ dtask' = [dtask EXCEPT ![t] = [pc |-> "idle", chan |-> NoChan]]
    /\ UNCHANGED <<now, isLive, active_downloads, download_cooldowns,
                   configured_streamers, workers, outcome, NotDL>>

(* stop_download 397-407: the job is tracked; raise the cancellation Event of
   the channel (the Event of the job's worker) and sleep 0.5 s. A call for a
   channel without a job returns at once. *)
CallStop_Nothing(t, c) ==
    /\ dtask[t].pc = "idle"
    /\ Return(t, "nojob")
    /\ UNCHANGED <<now, isLive, active_downloads, download_cooldowns,
                   download_lock, configured_streamers, workers, NotDL>>

CallStop(t, c) ==
    /\ dtask[t].pc = "idle"
    /\ IF c \in DOMAIN active_downloads
       THEN /\ Goto(t, "stop_sleep", c)
            /\ workers' = [workers EXCEPT ![active_downloads[c]] =
                              IF @.st = "running" THEN [@ EXCEPT !.cancel = TRUE] ELSE @]
            /\ UNCHANGED outcome
       ELSE /\ Return(t, "nojob")
            /\ UNCHANGED workers
    /\ UNCHANGED <<now, isLive, active_downloads, download_cooldowns,
                   download_lock, configured_streamers, NotDL>>

(* _check_downloads 94-106 and _check_streamer_consistency 442-446: a job of
   a channel whose roster entry is not live is stopped. *)
MonitorZombie(c) ==
    /\ c \in DOMAIN active_downloads
    /\ ~isLive[c]
    /\ CallStop("monitor", c)

SupervisorZombie(c) ==
    /\ c \in DOMAIN active_downloads
    /\ ~isLive[c]
    /\ CallStop("supervisor", c)

(* _check_downloads 114-117: downloads disabled but a job is running. *)
MonitorDisabled(c) ==
    /\ c \notin configured_streamers
    /\ c \in DOMAIN active_downloads
    /\ CallStop("monitor", c)

(* handlers.stop_download: the operator's manual stop. *)
WebStop(c) == CallStop("web", c)

(* stop_download 410-428 after the sleep: "del self.active_downloads[streamer]"
   is unguarded and raises KeyError when the job is gone meanwhile. *)
StopFinish(t) ==
    /\ dtask[t].pc = "stop_sleep"
    /\ LET c == dtask[t].chan IN
         IF c \in DOMAIN active_downloads
         THEN /\ active_downloads' = DictDel(active_downloads, c)
              /\ Return(t, "stopped")
         ELSE /\ Return(t, "keyerror")
              /\ UNCHANGED active_downloads
    /\ UNCHANGED <<now, isLive, download_cooldowns, download_lock,
                   configured_streamers, workers, NotDL>>

(* _download_stream_thread 474-505: the read loop ends (cancellation seen,
   end of stream, or a read error). A cancelled worker returns silently;
   otherwise a completion is posted to the loop. *)
WorkerLoopExit(w) ==
    /\ workers[w].st = "running"
    /\ workers' = [workers EXCEPT ![w] =
                      IF workers[w].cancel THEN EndedWorker
                      ELSE [@ EXCEPT !.st = "posted"]]
    /\ UNCHANGED <<now, isLive, active_downloads, download_cooldowns,
                   download_lock, configured_streamers, dtask, outcome, NotDL>>

(* _download_stream_thread 507-519: an exception (opening the stream or the
   file) posts a completion, whatever the cancellation Event says. *)
WorkerException(w) ==
    /\ workers[w].st = "running"
    /\ workers' = [workers EXCEPT ![w] = [@ EXCEPT !.st = "posted", !.cancel = FALSE]]
    /\ UNCHANGED <<now, isLive, active_downloads, download_cooldowns,
                   download_lock, configured_streamers, dtask, outcome, NotDL>>

(* _download_stream_thread 454-456: no rendition offered; the thread returns
   without posting anything. *)
WorkerNoStreams(w) ==
    /\ workers[w].st = "running"
    /\ workers' = [workers EXCEPT ![w] = EndedWorker]
    /\ UNCHANGED <<now, isLive, active_downloads, download_cooldowns,
                   download_lock, configured_streamers, dtask, outcome, NotDL>>

(* _handle_download_completion 526-530, run on the loop for a posted
   completion: drop the channel's job and install the cooldown. *)
HandleCompletion(w) ==
    /\ workers[w].st = "posted"
    /\ LET c == workers[w].chan IN
         /\ active_downloads' = DictDel(active_downloads, c)
         /\ download_cooldowns' = DictSet(download_cooldowns, c, now + cooldown_duration)
    /\ workers' = [workers EXCEPT ![w] = EndedWorker]
    /\ UNCHANGED <<now, isLive, download_lock, configured_streamers, dtask,
                   outcome, NotDL>>

(* The roster's live flag as written by a notification or by the poll-tick
   (eventsub_service.py 1049/1091, background_service.py 180). *)
RosterLive(c, b) ==
    /\ isLive[c] # b
    /\ isLive' = [isLive EXCEPT ![c] = b]
    /\ UNCHANGED <<now, dlvars, NotDL>>

NextDL ==
    \/ TickDL
    \/ \E c \in Channels : MonitorStart(c)
    \/ \E c \in Channels : SupervisorStart(c)
    \/ \E c \in Channels : WebStart(c)
    \/ \E t \in DLTasks : StartCheck(t)
    \/ \E t \in DLTasks, res \in {"live", "offline", "fail", "noid", "raised"},
          ok \in BOOLEAN :
          StartLive(t, res, ok)
    \/ \E t \in DLTasks : StartReturn(t)
    \/ \E c \in Channels : MonitorZombie(c)
    \/ \E c \in Channels : SupervisorZombie(c)
    \/ \E c \in Channels : MonitorDisabled(c)
    \/ \E c \in Channels : WebStop(c)
    \/ \E t \in DLTasks : StopFinish(t)
    \/ \E w \in WorkerIds : WorkerLoopExit(w)
    \/ \E w \in WorkerIds : WorkerException(w)
    \/ \E w \in WorkerIds : WorkerNoStreams(w)
    \/ \E w \in WorkerIds : HandleCompletion(w)
    \/ \E c \in Channels, b \in BOOLEAN : RosterLive(c, b)

----------------------------------------------------------------------------
(* TokenManager; the supervisor's observer _on_token_refresh; the push
   service as far as stop() and start() change it. *)

TMTasks == {"timer", "supervisor", "web", "conn"}

NoToken == 0 - 1

IdleTask == [pc |-> "idle", seen |-> NoToken, cancel |-> FALSE]

NoGet == [seq |-> 0, task |-> "none", force |-> FALSE, cmp |-> "none",
          held |-> NoToken, trigger |-> FALSE, token |-> NoToken]

(* The token manager at rest, for the runs of the other components. *)
IdleTM ==
    /\ tokens = [access_token |-> 0, expires_at |-> default_expires_in * 1000]
    /\ refresh_lock = "free"
    /\ refresh_task = [st |-> "none", due |-> 0]
    /\ ttask = [t \in TMTasks |-> IdleTask]
    /\ es_running = TRUE
    /\ es_token = 0
    /\ conn_alive = TRUE
    /\ validated = NoToken
    /\ completed = 0
    /\ lastget = NoGet

(* token_manager.py 185: the token is expired, about to expire, or the caller
   forces a refresh. expires_at is in milliseconds, the clock in seconds. *)
NeedsRefresh_Always(force, expires_at, t) == TRUE

NeedsRefresh_Inclusive(force, expires_at, t) ==
    force \/ expires_at <= (t + refresh_buffer) * 1000

NeedsRefresh(force, expires_at, t) ==
    force \/ expires_at < (t + refresh_buffer) * 1000

(* schedule_refresh_task 318-325: seconds until the next timed refresh. *)
Max0(x) == IF x > 0 THEN x ELSE 0

time_until_refresh(expires_at, t) ==
    Max0((expires_at \div 1000) - t - refresh_buffer)

(* Expiries the token file may hold at start-up: past the refresh threshold,
   exactly on it, and ahead of it. *)
InitExpiry == {0, refresh_buffer * 1000, 2 * refresh_buffer * 1000}

(* expires_in values of a refresh response. *)
ExpiresIn == {2 * refresh_buffer, default_expires_in}

(* After TokenManager.start() (82-87) and StreamMonitorService start-up: tokens
   loaded, the timer scheduled, the push service running with that token. *)
InitTM ==
    /\ now = 0
    /\ \E e \in InitExpiry :
         /\ tokens = [access_token |-> 0, expires_at |-> e]
         /\ refresh_task = [st |-> "sleeping", due |-> time_until_refresh(e, 0)]
    /\ refresh_lock = "free"
    /\ ttask = [t \in TMTasks |-> IdleTask]
    /\ es_running = TRUE
    /\ es_token = 0
    /\ conn_alive = TRUE
    /\ validated = NoToken
    /\ completed = 0
    /\ lastget = NoGet

(* The clock of the token manager's runs advances by one refresh buffer. *)
TickTM ==
    /\ now + refresh_buffer <= MaxTimeTM
    /\ now' = now + refresh_buffer
    /\ UNCHANGED <<tmvars, NotTM>>

(* How expires_at relates to the refresh threshold (now + buffer) * 1000. *)
Threshold(expires_at, t) ==
    IF expires_at < (t + refresh_buffer) * 1000 THEN "earlier"
    ELSE IF expires_at = (t + refresh_buffer) * 1000 THEN "equal"
    ELSE "later"

(* get_access_token 160-193, up to its first await: decide whether to
   refresh. Without a refresh the current token is returned at once with
   refreshed? = false; otherwise the caller enters refresh_token and reaches
   "async with self.refresh_lock". *)
Get(t, force) ==
    /\ ttask[t].pc = "idle"
    /\ LET trig == NeedsRefresh(force, tokens.expires_at, now) IN
         /\ lastget' = [seq |-> 1 - lastget.seq, task |-> t, force |-> force,
                        cmp |-> Threshold(tokens.expires_at, now),
                        held |-> tokens.access_token,
                        trigger |-> trig,
                        token |-> IF trig THEN NoToken ELSE tokens.access_token]
         /\ ttask' = IF trig
                     THEN [ttask EXCEPT ![t] = [pc |-> "lock",
                                                seen |-> tokens.access_token,
                                                cancel |-> FALSE]]
                     ELSE ttask
    /\ UNCHANGED <<now, tokens, refresh_lock, refresh_task, es_running, es_token,
                   conn_alive, validated, completed, NotTM>>

(* _check_token_health 411/421 and restart_eventsub 300. *)
SupervisorGet(force) == Get("supervisor", force)

(* add_streamer_subscription -> _create_subscription 683, on a web task. *)
WebGet == Get("web", FALSE)

(* _create_subscription 683 and, after a 401 answer, 759, on a connection
   task of the running push service. *)
ConnGet(force) ==
    /\ conn_alive
    /\ Get("conn", force)

(* _delayed_refresh 341-342: the sleep is over, the timer task calls
   refresh_token. *)
TimerFire ==
    /\ refresh_task.st = "sleeping"
    /\ now >= refresh_task.due
    /\ ttask["timer"].pc = "idle"
    /\ refresh_task' = [refresh_task EXCEPT !.st = "running"]
    /\ ttask' = [ttask EXCEPT !["timer"] = [pc |-> "lock",
                                            seen |-> tokens.access_token,
                                            cancel |-> FALSE]]
    /\ UNCHANGED <<now, tokens, refresh_lock, es_running, es_token, conn_alive,
                   validated, completed, lastget, NotTM>>

(* refresh_token 209-222: the lock is taken and the refresh request is sent.
   Nothing is re-checked once the lock is held. *)
Acquire(t) ==
    /\ ttask[t].pc = "lock"
    /\ ~ttask[t].cancel
    /\ refresh_lock = "free"
    /\ tokens.access_token < MaxRefresh
    /\ refresh_lock' = t
    /\ ttask' = [ttask EXCEPT ![t].pc = "http"]
    /\ UNCHANGED <<now, tokens, refresh_task, es_running, es_token, conn_alive,
                   validated, completed, lastget, NotTM>>

(* refresh_token 224-262: the answer to the refresh request. A failure
   returns False. On success the tokens are saved, schedule_refresh_task
   (314-328) cancels the timer task that is registered and not done, even when
   that is the task running this code, and registers a new one; then the
   observer is called and suspends in validate_token. *)
HttpResponse(t, ok, expires_in) ==
    /\ ttask[t].pc = "http"
    /\ IF ~ok
       THEN /\ refresh_lock' = "free"
            /\ ttask' = [ttask EXCEPT ![t] = IdleTask]
            /\ refresh_task' = IF t = "timer" /\ refresh_task.st = "running"
                               THEN [refresh_task EXCEPT !.st = "done"]
                               ELSE refresh_task
            /\ UNCHANGED tokens
       ELSE LET exp == now * 1000 + expires_in * 1000
                timerLive == refresh_task.st = "running"
            IN  /\ tokens' = [access_token |-> tokens.access_token + 1,
                              expires_at |-> exp]
                /\ refresh_task' = [st |-> "sleeping",
                                    due |-> now + time_until_refresh(exp, now)]
                /\ ttask' = [x \in TMTasks |->
                               IF x = t
                               THEN [ttask[t] EXCEPT !.pc = "validate",
                                                     !.cancel = (timerLive /\ t = "timer")]
                               ELSE IF x = "timer" /\ timerLive
                               THEN IdleTask
                               ELSE ttask[x]]
                /\ UNCHANGED refresh_lock
    /\ UNCHANGED <<now, es_running, es_token, conn_alive, validated, completed,
                   lastget, NotTM>>

(* A task whose cancellation was requested while it was running receives
   CancelledError at its next suspension. Nothing on the way out catches it
   (the handlers are "except Exception"): the observer, the callback loop,
   refresh_token and get_access_token are unwound, "async with" releases the
   lock, and the task ends. *)
Cancelled(t) ==
    /\ ttask[t].pc # "idle"
    /\ ttask[t].cancel
    /\ refresh_lock' = IF refresh_lock = t THEN "free" ELSE refresh_lock
    /\ ttask' = [ttask EXCEPT ![t] = IdleTask]
    /\ UNCHANGED <<now, tokens, refresh_task, es_running, es_token, conn_alive,
                   validated, completed, lastget, NotTM>>

(* The observer returns, the callback loop ends, refresh_token returns True
   and releases the lock. *)
ObserverReturn(t) ==
    /\ completed' = completed + 1
    /\ refresh_lock' = "free"
    /\ ttask' = [ttask EXCEPT ![t] = IdleTask]

(* _on_token_refresh 263-270: the answer of validate_token. An invalid token
   ends the observer; a valid one leads to the first sleep. *)
ObsValidate(t, valid) ==
    /\ ttask[t].pc = "validate"
    /\ ~ttask[t].cancel
    /\ IF valid
       THEN /\ validated' = tokens.access_token
            /\ ttask' = [ttask EXCEPT ![t].pc = "sleep1"]
            /\ UNCHANGED <<refresh_lock, completed>>
       ELSE /\ ObserverReturn(t)
            /\ UNCHANGED validated
    /\ UNCHANGED <<now, tokens, refresh_task, es_running, es_token, conn_alive,
                   lastget, NotTM>>

(* _on_token_refresh 270-273 and EventSubService.stop 110-116: after the
   sleep, stop() clears "running" and awaits _unsubscribe_all. *)
ObsStop(t) ==
    /\ ttask[t].pc = "sleep1"
    /\ ~ttask[t].cancel
    /\ es_running' = FALSE
    /\ ttask' = [ttask EXCEPT ![t].pc = "unsub"]
    /\ UNCHANGED <<now, tokens, refresh_lock, refresh_task, es_token, conn_alive,
                   validated, completed, lastget, NotTM>>

(* EventSubService.stop 118-133 and _on_token_refresh 276-281: every
   connection task is cancelled (the calling task included, when it is one),
   the tables are cleared, the new token is installed, and the observer
   sleeps again. A connection task waiting for the refresh lock ends with
   its cancellation. *)
ObsInstall(t) ==
    /\ ttask[t].pc = "unsub"
    /\ ~ttask[t].cancel
    /\ conn_alive' = FALSE
    /\ es_token' = tokens.access_token
    /\ ttask' = [x \in TMTasks |->
                   IF x = t
                   THEN [ttask[t] EXCEPT !.pc = "sleep2",
                                         !.cancel = (t = "conn" /\ conn_alive)]
                   ELSE IF x = "conn"
                   THEN IdleTask
                   ELSE ttask[x]]
    /\ UNCHANGED <<now, tokens, refresh_lock, refresh_task, es_running,
                   validated, completed, lastget, NotTM>>

(* _on_token_refresh 281-284 and EventSubService.start 71-108: after the
   second sleep the service is started with the installed token (no await
   on this path) and the observer returns. *)
ObsStart(t) ==
    /\ ttask[t].pc = "sleep2"
    /\ ~ttask[t].cancel
    /\ es_running' = TRUE
    /\ ObserverReturn(t)
    /\ UNCHANGED <<now, tokens, refresh_task, es_token, conn_alive, validated,
                   lastget, NotTM>>

(* _manage_connections 135-174 / _create_connections: the running service
   opens its connection tasks. *)
ConnUp ==
    /\ es_running
    /\ ~conn_alive
    /\ ttask["conn"].pc = "idle"
    /\ conn_alive' = TRUE
    /\ UNCHANGED <<now, tokens, refresh_lock, refresh_task, ttask, es_running,
                   es_token, validated, completed, lastget, NotTM>>

NextTM ==
    \/ TickTM
    \/ \E force \in BOOLEAN : SupervisorGet(force)
    \/ WebGet
    \/ \E force \in BOOLEAN : ConnGet(force)
    \/ TimerFire
    \/ \E t \in TMTasks : Acquire(t)
    \/ \E t \in TMTasks, ok \in BOOLEAN, e \in ExpiresIn : HttpResponse(t, ok, e)
    \/ \E t \in TMTasks : Cancelled(t)
    \/ \E t \in TMTasks, valid \in BOOLEAN : ObsValidate(t, valid)
    \/ \E t \in TMTasks : ObsStop(t)
    \/ \E t \in TMTasks : ObsInstall(t)
    \/ \E t \in TMTasks : ObsStart(t)
    \/ ConnUp

----------------------------------------------------------------------------
(* EventSubService (Push Subscription Manager). The runs start from a roster
   of batch_size channels, for which _create_connections opens one
   connection; Twitch accepts every subscription request, lists the
   subscriptions the tables record and revokes none; the operator adds a
   channel while a session is known; the connection task retries without
   giving up. Each handler is taken as one step. *)

ESUsers == 1 .. MaxUsers

(* The channels whose stream starts and ends during the runs. *)
Volatile == {1}

NoSession == 0

IdleWeb == [pc |-> "idle", user |-> 0, is_live |-> FALSE]

(* The push service at rest, for the runs of the other components. *)
IdleES ==
    /\ streamers = {}
    /\ ws_status = "connecting"
    /\ cpc = "connect"
    /\ connection_session_id = NoSession
    /\ batch = EmptyDict
    /\ session_ids = <<>>
    /\ active_subscriptions = EmptyDict
    /\ subscriptions_by_session = EmptyDict
    /\ reconnect_urls = FALSE
    /\ sessions_issued = 0
    /\ wtask = IdleWeb

(* After start() and _create_connections 188-219: one connection task for
   the roster, each channel taken with the live flag it has then. *)
InitES ==
    /\ now = 0
    /\ streamers = 1 .. batch_size
    /\ isLive \in {f \in [ESUsers -> BOOLEAN] : \A u \in ESUsers \ Volatile : ~f[u]}
    /\ batch = [u \in streamers |-> isLive[u]]
    /\ ws_status = "connecting"
    /\ cpc = "connect"
    /\ connection_session_id = NoSession
    /\ session_ids = <<>>
    /\ active_subscriptions = EmptyDict
    /\ subscriptions_by_session = EmptyDict
    /\ reconnect_urls = FALSE
    /\ sessions_issued = 0
    /\ wtask = IdleWeb

(* Lines 366, 1288: the event to wait for is the next transition. *)
EventTypeFor(is_live) == IF is_live THEN "stream.offline" ELSE "stream.online"

Range(q) == {q[i] : i \in 1 .. Len(q)}

(* "del self.subscriptions_by_session[session_id][user_id]", guarded. *)
DropUser(bys, sid, u) ==
    IF sid \in DOMAIN bys THEN [bys EXCEPT ![sid] = DictDel(@, u)] ELSE bys

(* "self.subscriptions_by_session[session_id][user_id] = ...", guarded. *)
PutUser(bys, sid, u, ev) ==
    IF sid \in DOMAIN bys THEN [bys EXCEPT ![sid] = DictSet(@, u, ev)] ELSE bys

(* remove_streamer_subscription 1385-1529, local effect on the two tables:
   the by-session entry of the session the subscription names, then the
   subscription itself. *)
RemovedBySession(act, bys, u) ==
    IF u \in DOMAIN act THEN DropUser(bys, act[u].session_id, u) ELSE bys

RemovedActive(act, u) == DictDel(act, u)

(* Lines 490-534 and 536-562: forget the task's session, the subscriptions
   that name it, and its by-session table. *)
ForgetSession ==
    LET sid == connection_session_id IN
      IF sid \in Range(session_ids)
      THEN /\ session_ids' = SelectSeq(session_ids, LAMBDA x : x # sid)
           /\ IF sid \in DOMAIN subscriptions_by_session
              THEN /\ active_subscriptions' =
                        [u \in {x \in DOMAIN active_subscriptions :
                                  ~( /\ x \in DOMAIN subscriptions_by_session[sid]
                                     /\ active_subscriptions[x].session_id = sid )}
                           |-> active_subscriptions[u]]
                   /\ subscriptions_by_session' =
                        [x \in (DOMAIN subscriptions_by_session) \ {sid}
                           |-> subscriptions_by_session[x]]
              ELSE UNCHANGED <<active_subscriptions, subscriptions_by_session>>
      ELSE UNCHANGED <<session_ids, active_subscriptions, subscriptions_by_session>>

(* _handle_connection 289-314: the socket opens; a stored reconnect URL is
   used up; the status becomes "connected" before any welcome is read. *)
ConnOpen ==
    /\ cpc = "connect"
    /\ ws_status' = "connected"
    /\ cpc' = IF reconnect_urls THEN "welcome_re" ELSE "welcome"
    /\ reconnect_urls' = FALSE
    /\ UNCHANGED <<isLive, streamers, connection_session_id, batch, session_ids,
                   active_subscriptions, subscriptions_by_session,
                   sessions_issued, wtask, NotES>>

(* Lines 317-336: the welcome message names the session: a new one, or,
   after a reconnect frame, possibly the one the task had. *)
Welcome(fresh) ==
    /\ cpc \in {"welcome", "welcome_re"}
    /\ fresh \/ (cpc = "welcome_re" /\ connection_session_id # NoSession)
    /\ fresh => sessions_issued < MaxSessions
    /\ LET sid == IF fresh THEN sessions_issued + 1 ELSE connection_session_id IN
         /\ connection_session_id' = sid
         /\ session_ids' = IF sid \in Range(session_ids) THEN session_ids
                           ELSE Append(session_ids, sid)
         /\ subscriptions_by_session' =
              IF sid \in DOMAIN subscriptions_by_session THEN subscriptions_by_session
              ELSE DictSet(subscriptions_by_session, sid, EmptyDict)
    /\ sessions_issued' = IF fresh THEN sessions_issued + 1 ELSE sessions_issued
    /\ cpc' = "resub"
    /\ UNCHANGED <<isLive, streamers, ws_status, batch, active_subscriptions,
                   reconnect_urls, wtask, NotES>>

(* The by-session tables after remove_streamer_subscription for each user of
   U that has a subscription, and the subscriptions left. *)
BysWithout(act, bys, U) ==
    [sid \in DOMAIN bys |->
        [u \in {x \in DOMAIN bys[sid] :
                  ~(x \in U /\ x \in DOMAIN act /\ act[x].session_id = sid)}
           |-> bys[sid][u]]]

ActWithout(act, U) == [u \in (DOMAIN act) \ U |-> act[u]]

(* _check_existing_subscriptions_with_twitch 589-660: every listed
   subscription of a roster channel is re-recorded under the new session. *)
Adopted(act, sid) ==
    [u \in DOMAIN act |->
        IF u \in streamers THEN [act[u] EXCEPT !.session_id = sid] ELSE act[u]]

AdoptedBys(act, bys, sid) ==
    LET base == IF sid \in DOMAIN bys THEN bys ELSE DictSet(bys, sid, EmptyDict)
        mine == (DOMAIN act) \cap streamers
    IN  [base EXCEPT ![sid] =
            [u \in (DOMAIN base[sid]) \cup mine |->
                IF u \in mine THEN act[u].event_type ELSE base[sid][u]]]

(* _handle_connection 338-405, after the welcome: the batch's channels are
   cleaned, the listed subscriptions adopted, every recorded subscription
   removed, and one subscription per channel of the batch created, its kind
   taken from the live flag the batch was built with. *)
Resubscribe ==
    /\ cpc = "resub"
    /\ LET sid  == connection_session_id
           bys1 == BysWithout(active_subscriptions, subscriptions_by_session,
                              DOMAIN batch)
           act1 == ActWithout(active_subscriptions, DOMAIN batch)
           bys2 == AdoptedBys(act1, bys1, sid)
           act2 == Adopted(act1, sid)
           bys3 == BysWithout(act2, bys2, DOMAIN act2)
       IN  /\ active_subscriptions' =
                [u \in DOMAIN batch |->
                    [event_type |-> EventTypeFor(batch[u]), session_id |-> sid]]
           /\ subscriptions_by_session' =
                [bys3 EXCEPT ![sid] =
                    [u \in (DOMAIN bys3[sid]) \cup DOMAIN batch |->
                        IF u \in DOMAIN batch THEN EventTypeFor(batch[u])
                        ELSE bys3[sid][u]]]
    /\ cpc' = "loop"
    /\ UNCHANGED <<isLive, streamers, ws_status, connection_session_id, batch,
                   session_ids, reconnect_urls, sessions_issued, wtask, NotES>>

(* _handle_notification 1005-1132 for a notification of a subscription the
   connection holds: the roster's live flag is written; the subscription is
   flipped only when the flag read before differs from the one written. *)
Notify(u, kind) ==
    /\ cpc = "loop"
    /\ u \in DOMAIN active_subscriptions
    /\ active_subscriptions[u].event_type = kind
    /\ active_subscriptions[u].session_id = connection_session_id
    /\ IF u \notin streamers
       THEN UNCHANGED <<isLive, active_subscriptions, subscriptions_by_session>>
       ELSE LET live      == (kind = "stream.online")
                old_state == isLive[u]
                sid       == active_subscriptions[u].session_id
            IN  /\ isLive' = [isLive EXCEPT ![u] = live]
                /\ IF old_state # live /\ sid # NoSession
                   THEN /\ active_subscriptions' =
                             DictSet(active_subscriptions, u,
                                     [event_type |-> EventTypeFor(live),
                                      session_id |-> sid])
                        /\ subscriptions_by_session' =
                             PutUser(RemovedBySession(active_subscriptions,
                                                      subscriptions_by_session, u),
                                     sid, u, EventTypeFor(live))
                   ELSE UNCHANGED <<active_subscriptions, subscriptions_by_session>>
    /\ UNCHANGED <<streamers, ws_status, cpc, connection_session_id, batch,
                   session_ids, reconnect_urls, sessions_issued, wtask, NotES>>

(* Lines 422-438: a session_reconnect frame. The URL is stored, the status
   set to "reconnecting", the socket closed, and the task goes back to
   connect; the session id and the tables are left as they are. *)
ReconnectFrame ==
    /\ cpc = "loop"
    /\ reconnect_urls' = TRUE
    /\ ws_status' = "reconnecting"
    /\ cpc' = "connect"
    /\ UNCHANGED <<isLive, streamers, connection_session_id, batch, session_ids,
                   active_subscriptions, subscriptions_by_session,
                   sessions_issued, wtask, NotES>>

(* Lines 455-534: the socket closes, or a read times out and the ping fails.
   The status becomes "disconnected". After an abnormal closure (1006) the
   handler first sleeps and probes the API; otherwise it forgets the session
   at once and backs off. *)
Closed(abnormal) ==
    /\ cpc \in {"welcome", "welcome_re", "loop"}
    /\ ws_status' = IF cpc = "loop" \/ ~abnormal THEN "disconnected" ELSE ws_status
    /\ IF abnormal
       THEN /\ cpc' = "stabilize"
            /\ UNCHANGED <<session_ids, active_subscriptions,
                           subscriptions_by_session>>
       ELSE /\ cpc' = "backoff"
            /\ ForgetSession
    /\ UNCHANGED <<isLive, streamers, connection_session_id, batch,
                   reconnect_urls, sessions_issued, wtask, NotES>>

(* Lines 505-534: the probe after an abnormal closure is over. *)
Stabilized ==
    /\ cpc = "stabilize"
    /\ ws_status' = "disconnected"
    /\ cpc' = "backoff"
    /\ ForgetSession
    /\ UNCHANGED <<isLive, streamers, connection_session_id, batch,
                   reconnect_urls, sessions_issued, wtask, NotES>>

(* Lines 536-562: any other exception (the dial fails, a frame cannot be
   parsed). A dial that fails has used up the stored reconnect URL (296). *)
ConnError ==
    /\ cpc \in {"connect", "loop"}
    /\ ws_status' = "error"
    /\ cpc' = "backoff"
    /\ reconnect_urls' = IF cpc = "connect" THEN FALSE ELSE reconnect_urls
    /\ ForgetSession
    /\ UNCHANGED <<isLive, streamers, connection_session_id, batch,
                   sessions_issued, wtask, NotES>>

(* Lines 530-534 / 558-562: the back-off sleep ends and the loop dials
   again. *)
Retry ==
    /\ cpc = "backoff"
    /\ cpc' = "connect"
    /\ UNCHANGED <<isLive, streamers, ws_status, connection_session_id, batch,
                   session_ids, active_subscriptions, subscriptions_by_session,
                   reconnect_urls, sessions_issued, wtask, NotES>>

(* handlers.update_streamers 135-247 with a new channel: it is put on the
   roster with the live flag just fetched, and add_streamer_subscription is
   started as a task. *)
WebAdd(live) ==
    /\ wtask.pc = "idle"
    /\ Len(session_ids) > 0
    /\ ESUsers \ streamers # {}
    /\ LET u == CHOOSE x \in ESUsers \ streamers :
                   \A y \in ESUsers \ streamers : x <= y
       IN  /\ live => u \in Volatile
           /\ streamers' = streamers \cup {u}
           /\ isLive' = [isLive EXCEPT ![u] = live]
           /\ wtask' = [pc |-> "add", user |-> u, is_live |-> live]
    /\ UNCHANGED <<ws_status, cpc, connection_session_id, batch, session_ids,
                   active_subscriptions, subscriptions_by_session,
                   reconnect_urls, sessions_issued, NotES>>

Count(bys, sid) == IF sid \in DOMAIN bys THEN Cardinality(DOMAIN bys[sid]) ELSE 0

MinOf(S) == CHOOSE x \in S : \A y \in S : x <= y

(* add_streamer_subscription 1305-1331: the first known session with fewer
   than 8 subscriptions, else the one with the fewest. *)
SelectSession(ids, bys) ==
    LET below == {i \in 1 .. Len(ids) : Count(bys, ids[i]) < session_limit}
        least == {i \in 1 .. Len(ids) :
                    \A j \in 1 .. Len(ids) : Count(bys, ids[i]) <= Count(bys, ids[j])}
    IN  IF below # {} THEN ids[MinOf(below)] ELSE ids[MinOf(least)]

(* add_streamer_subscription 1264-1369 with a session known: clean the
   channel's subscription, select a session, create the subscription and
   record it. *)
AddSubscribe ==
    /\ wtask.pc = "add"
    /\ Len(session_ids) > 0
    /\ LET u    == wtask.user
           ev   == EventTypeFor(wtask.is_live)
           bys1 == RemovedBySession(active_subscriptions, subscriptions_by_session, u)
           act1 == RemovedActive(active_subscriptions, u)
           sid  == SelectSession(session_ids, bys1)
           bys2 == IF sid \in DOMAIN bys1 THEN bys1 ELSE DictSet(bys1, sid, EmptyDict)
       IN  /\ active_subscriptions' =
                DictSet(act1, u, [event_type |-> ev, session_id |-> sid])
           /\ subscriptions_by_session' = PutUser(bys2, sid, u, ev)
    /\ wtask' = IdleWeb
    /\ UNCHANGED <<isLive, streamers, ws_status, cpc, connection_session_id,
                   batch, session_ids, reconnect_urls, sessions_issued, NotES>>

(* handlers.update_streamers with a channel left out: it is taken off the
   roster and remove_streamer_subscription is started as a task. *)
WebRemove ==
    /\ wtask.pc = "idle"
    /\ Cardinality(streamers) > 1
    /\ LET u == CHOOSE x \in streamers : \A y \in streamers : y <= x
       IN  /\ streamers' = streamers \ {u}
           /\ isLive' = [isLive EXCEPT ![u] = FALSE]
           /\ wtask' = [pc |-> "remove", user |-> u, is_live |-> FALSE]
    /\ UNCHANGED <<ws_status, cpc, connection_session_id, batch, session_ids,
                   active_subscriptions, subscriptions_by_session,
                   reconnect_urls, sessions_issued, NotES>>

(* remove_streamer_subscription, run as that task. *)
RemoveSubscribe ==
    /\ wtask.pc = "remove"
    /\ subscriptions_by_session' =
         RemovedBySession(active_subscriptions, subscriptions_by_session, wtask.user)
    /\ active_subscriptions' = RemovedActive(active_subscriptions, wtask.user)
    /\ wtask' = IdleWeb
    /\ UNCHANGED <<isLive, streamers, ws_status, cpc, connection_session_id,
                   batch, session_ids, reconnect_urls, sessions_issued, NotES>>

(* _update_all_streamers 156-248: the poll-tick writes the live flag it
   fetched for a channel to the roster; the subscriptions are not touched. *)
PollTick(u, is_live) ==
    /\ u \in streamers
    /\ isLive[u] # is_live
    /\ isLive' = [isLive EXCEPT ![u] = is_live]
    /\ UNCHANGED <<esvars, NotES>>

NextES ==
    \/ ConnOpen
    \/ \E fresh \in BOOLEAN : Welcome(fresh)
    \/ Resubscribe
    \/ \E u \in Volatile, kind \in {"stream.online", "stream.offline"} : Notify(u, kind)
    \/ ReconnectFrame
    \/ \E abnormal \in BOOLEAN : Closed(abnormal)
    \/ Stabilized
    \/ ConnError
    \/ Retry
    \/ \E live \in BOOLEAN : WebAdd(live)
    \/ AddSubscribe
    \/ WebRemove
    \/ RemoveSubscribe
    \/ \E u \in Volatile, b \in BOOLEAN : PollTick(u, b)

----------------------------------------------------------------------------
(* Persistence of the token bundle (TokenManager.save_tokens, the POST branch
   of WebHandlers.handle_token) and of the roster
   (settings.update_monitored_streamers). Every save runs without an await,
   so no task of the loop sees it half done; its steps are the file-system
   calls it makes, between which the process can die and a reader outside
   the loop can open the file. A bundle is known by its number, a file by how
   much of which version it holds. *)

TOKEN_FILE == "token.json"

STREAMERS_FILE == "streamers.json"

TEMP_FILE == "streamers.json.tmp"

Absent == [st |-> "absent", v |-> 0]

Truncated == [st |-> "empty", v |-> 0]

Partial(v) == [st |-> "partial", v |-> v]

Full(v) == [st |-> "full", v |-> v]

NoWrite == [who |-> "none", pc |-> "idle", target |-> "none", v |-> 0]

NoRet == [token |-> NoToken, refreshed |-> FALSE]

NoAttempt == [st |-> "none", mem0 |-> NoToken, file0 |-> Absent,
              mem1 |-> NoToken, file1 |-> Absent, emitted |-> FALSE, ret |-> NoRet]

NoRead == [name |-> "none", content |-> Absent]

(* The files at rest, for the runs of the other components: bundle 0 and
   roster 0 are on disk, nothing is being saved. *)
IdleFS ==
    /\ files = [f \in {TOKEN_FILE, STREAMERS_FILE, TEMP_FILE} |->
                  IF f = TEMP_FILE THEN Absent ELSE Full(0)]
    /\ fw = NoWrite
    /\ attempt = NoAttempt
    /\ observed = NoRead

InitFS ==
    /\ now = 0
    /\ isLive = [c \in Channels |-> FALSE]
    /\ IdleFS

(* The token manager's variables a save leaves alone. *)
tmrest == <<refresh_lock, refresh_task, ttask, es_running, es_token, conn_alive,
            validated, completed, lastget>>

NotFS == <<now, isLive, dlvars, tmrest, esvars, svvars, rvars, nvars, rcvars,
          tivars, cnvars, suvars,
          envars,
          puvars,
          rsvars>>

(* The file a save opens for writing: the roster goes to a temporary file
   (settings.py 170-172), the token bundle to the token file itself
   (token_manager.py 151, handlers.py 484). *)
WriteTarget_InPlace(name) == name

WriteTarget(name) == IF name = STREAMERS_FILE THEN TEMP_FILE ELSE name

(* refresh_token 241-246: the bundle built from the endpoint's answer. *)
Bundle(v) == [access_token |-> v, expires_at |-> now * 1000 + default_expires_in * 1000]

(* load_tokens 117-131: a complete file gives its bundle, anything else {}. *)
Loaded(content) == IF content.st = "full" THEN Bundle(content.v) ELSE Bundle(NoToken)

(* refresh_token 223-238 and 266-270: the endpoint answers with a status
   other than 200, or without a token, or the request fails. refresh_token
   returns False and get_access_token 193 returns the token it holds. *)
RefreshRejected(kind) ==
    /\ fw = NoWrite
    /\ tokens.access_token # NoToken
    /\ attempt' = [st |-> "failed",
                   mem0 |-> tokens.access_token, file0 |-> files[TOKEN_FILE],
                   mem1 |-> tokens.access_token, file1 |-> files[TOKEN_FILE],
                   emitted |-> FALSE,
                   ret |-> [token |-> tokens.access_token, refreshed |-> FALSE]]
    /\ UNCHANGED <<tokens, files, fw, observed, NotFS>>

(* refresh_token 229-249: a complete answer; save_tokens is entered with the
   new bundle. *)
RefreshAnswered ==
    /\ fw = NoWrite
    /\ tokens.access_token # NoToken
    /\ tokens.access_token < MaxSaves
    /\ files[TOKEN_FILE].v < MaxSaves
    /\ attempt' = [NoAttempt EXCEPT !.st = "running",
                                    !.mem0 = tokens.access_token,
                                    !.file0 = files[TOKEN_FILE]]
    /\ fw' = [who |-> "refresh", pc |-> "makedirs", target |-> WriteTarget(TOKEN_FILE),
              v |-> tokens.access_token + 1]
    /\ UNCHANGED <<tokens, files, observed, NotFS>>

(* handle_token 461-484: a POST with all the fields; the handler writes the
   token file itself. *)
WebPost ==
    /\ fw = NoWrite
    /\ files[TOKEN_FILE].v < MaxSaves
    /\ fw' = [who |-> "web", pc |-> "makedirs", target |-> WriteTarget(TOKEN_FILE),
              v |-> files[TOKEN_FILE].v + 1]
    /\ UNCHANGED <<tokens, files, attempt, observed, NotFS>>

(* update_monitored_streamers 136-172: called with a changed roster. *)
RosterUpdate ==
    /\ fw = NoWrite
    /\ files[STREAMERS_FILE].v < MaxSaves
    /\ fw' = [who |-> "roster", pc |-> "makedirs", target |-> WriteTarget(STREAMERS_FILE),
              v |-> files[STREAMERS_FILE].v + 1]
    /\ UNCHANGED <<tokens, files, attempt, observed, NotFS>>

(* A step of the save raised. save_tokens 156-158 returns False, so that
   refresh_token 263-265 returns False and get_access_token 193 returns the
   token it holds; handle_token and update_monitored_streamers 177-178 log
   the error. "f" is the content of the files when the step failed. *)
SaveAborted(f) ==
    /\ fw' = NoWrite
    /\ attempt' = IF fw.who = "refresh"
                  THEN [attempt EXCEPT !.st = "failed",
                                       !.mem1 = tokens.access_token,
                                       !.file1 = f[TOKEN_FILE],
                                       !.ret = [token |-> tokens.access_token,
                                                refreshed |-> FALSE]]
                  ELSE attempt
    /\ UNCHANGED tokens

(* The save wrote everything. save_tokens 154-155 installs the bundle in
   memory and refresh_token 251-262 re-arms the timer, calls the observers
   and returns True; handle_token has nothing more to write; the roster's
   temporary file is ready to be renamed. *)
SaveWritten(f) ==
    IF fw.who = "refresh"
    THEN /\ tokens' = Bundle(fw.v)
         /\ attempt' = [attempt EXCEPT !.st = "ok",
                                       !.mem1 = fw.v,
                                       !.file1 = f[TOKEN_FILE],
                                       !.emitted = TRUE,
                                       !.ret = [token |-> fw.v, refreshed |-> TRUE]]
         /\ fw' = NoWrite
    ELSE /\ fw' = IF fw.who = "roster" THEN [fw EXCEPT !.pc = "replace"] ELSE NoWrite
         /\ UNCHANGED <<tokens, attempt>>

(* os.makedirs(..., exist_ok=True): token_manager.py 148, handlers.py 481,
   settings.py 138. *)
Makedirs(ok) ==
    /\ fw.pc = "makedirs"
    /\ IF ok
       THEN /\ fw' = [fw EXCEPT !.pc = "open"]
            /\ UNCHANGED <<tokens, attempt>>
       ELSE SaveAborted(files)
    /\ UNCHANGED <<files, observed, NotFS>>

(* open(target, "w"): token_manager.py 151, handlers.py 484, settings.py 171.
   Opening for writing empties the file. *)
Open(ok) ==
    /\ fw.pc = "open"
    /\ IF ok
       THEN /\ files' = [files EXCEPT ![fw.target] = Truncated]
            /\ fw' = [fw EXCEPT !.pc = "dump"]
            /\ UNCHANGED <<tokens, attempt>>
       ELSE /\ SaveAborted(files)
            /\ UNCHANGED files
    /\ UNCHANGED <<observed, NotFS>>

(* json.dump(..., f, indent=2), first part of the text: token_manager.py 152,
   handlers.py 485, settings.py 172. *)
DumpSome(ok) ==
    /\ fw.pc = "dump"
    /\ IF ok
       THEN /\ files' = [files EXCEPT ![fw.target] = Partial(fw.v)]
            /\ fw' = [fw EXCEPT !.pc = "dump2"]
            /\ UNCHANGED <<tokens, attempt>>
       ELSE /\ SaveAborted(files)
            /\ UNCHANGED files
    /\ UNCHANGED <<observed, NotFS>>

(* json.dump, rest of the text, and the close at the end of "with". *)
DumpRest(ok) ==
    /\ fw.pc = "dump2"
    /\ IF ok
       THEN /\ files' = [files EXCEPT ![fw.target] = Full(fw.v)]
            /\ SaveWritten(files')
       ELSE /\ SaveAborted(files)
            /\ UNCHANGED files
    /\ UNCHANGED <<observed, NotFS>>

(* settings.py 175: os.replace(temp_file, STREAMERS_FILE). *)
Replace(ok) ==
    /\ fw.pc = "replace"
    /\ IF ok
       THEN /\ files' = [f \in DOMAIN files |->
                           IF f = STREAMERS_FILE THEN files[fw.target]
                           ELSE IF f = fw.target THEN Absent
                           ELSE files[f]]
            /\ fw' = NoWrite
            /\ UNCHANGED <<tokens, attempt>>
       ELSE /\ SaveAborted(files)
            /\ UNCHANGED files
    /\ UNCHANGED <<observed, NotFS>>

(* The process dies, at any step, and is started again: the files stay as
   they are, the attempt under way is lost, TokenManager.start 83 loads the
   token file. *)
Crash ==
    /\ fw' = NoWrite
    /\ attempt' = [NoAttempt EXCEPT !.st = "crashed"]
    /\ tokens' = Loaded(files[TOKEN_FILE])
    /\ UNCHANGED <<files, observed, NotFS>>

(* get_access_token 176-177: no bundle in memory, load_tokens is tried
   again. *)
Load ==
    /\ fw = NoWrite
    /\ tokens.access_token = NoToken
    /\ files[TOKEN_FILE].st = "full"
    /\ tokens' = Loaded(files[TOKEN_FILE])
    /\ UNCHANGED <<files, fw, attempt, observed, NotFS>>

(* A reader outside the loop (another process, a backup, the operator) opens
   a file and reads it. *)
Read(name) ==
    /\ observed' = [name |-> name, content |-> files[name]]
    /\ UNCHANGED <<tokens, files, fw, attempt, NotFS>>

NextFS ==
    \/ \E kind \in {"non200", "missing", "neterror"} : RefreshRejected(kind)
    \/ RefreshAnswered
    \/ WebPost
    \/ RosterUpdate
    \/ \E ok \in BOOLEAN : Makedirs(ok)
    \/ \E ok \in BOOLEAN : Open(ok)
    \/ \E ok \in BOOLEAN : DumpSome(ok)
    \/ \E ok \in BOOLEAN : DumpRest(ok)
    \/ \E ok \in BOOLEAN : Replace(ok)
    \/ Crash
    \/ Load
    \/ \E name \in {TOKEN_FILE, STREAMERS_FILE} : Read(name)

----------------------------------------------------------------------------
(* The Supervisor's supervise-tick (StreamMonitorService._supervision_loop)
   as far as it repairs the push service: the health check and the
   roster-consistency check, with restart_eventsub. The push service is the
   one connection of the section above: its task dials, is welcomed,
   subscribes, fails and retries; Twitch may revoke a subscription. A token
   is at hand whenever the push service is restarted. The zombie check and
   the download check of the tick belong to the recorder pool. *)

recovery_interval == 3600

supervision_interval == 600

mismatch_slack == 3

NoRevocation == [user |-> 0, st |-> "none"]

(* The supervisor at rest, for the runs of the other components. *)
IdleSV ==
    /\ recent_recoveries = EmptyDict
    /\ svpc = "health"
    /\ restarts = <<>>
    /\ revoked = NoRevocation

NotSV == <<isLive, dlvars, tmvars, pvars, rvars, nvars, rcvars, tivars, cnvars, suvars,
          envars,
          puvars,
          rsvars>>

(* The times of the latest two restarts the supervisor triggered. *)
Noted(q, t) == IF Len(q) < 2 THEN Append(q, t) ELSE <<q[2], t>>

(* background_service.py 388-393: a recovery is on record and less than an
   hour old. *)
RecentlyRecovered(t) ==
    /\ "eventsub" \in DOMAIN recent_recoveries
    /\ t - recent_recoveries["eventsub"] < recovery_interval

(* get_status 1554: the connections whose status is "connected". *)
active_connections == IF ws_status = "connected" THEN 1 ELSE 0

(* restart_eventsub 287-319 with EventSubService.stop 110-133, start 59-108
   and _create_connections 176-219: the tables are emptied, the connection
   task is cancelled, and a new one is created for the roster, each channel
   taken with the live flag it has now. *)
RestartEventsub ==
    /\ ws_status' = "connecting"
    /\ cpc' = "connect"
    /\ connection_session_id' = NoSession
    /\ batch' = [u \in streamers |-> isLive[u]]
    /\ session_ids' = <<>>
    /\ active_subscriptions' = EmptyDict
    /\ subscriptions_by_session' = EmptyDict
    /\ reconnect_urls' = FALSE
    /\ UNCHANGED <<streamers, sessions_issued, wtask>>

(* _check_eventsub_health 379-403, the first check of a tick: with channels
   on the roster and no connected connection the push service is restarted,
   unless a recovery less than an hour old is on record; the recovery is
   recorded with the time read before the restart. *)
SvHealth ==
    /\ svpc = "health"
    /\ IF Cardinality(streamers) > 0 /\ active_connections = 0 /\ ~RecentlyRecovered(now)
       THEN /\ RestartEventsub
            /\ recent_recoveries' = DictSet(recent_recoveries, "eventsub", now)
            /\ restarts' = Noted(restarts, now)
       ELSE UNCHANGED <<esvars, recent_recoveries, restarts>>
    /\ revoked' = IF revoked.st = "revoked" THEN [revoked EXCEPT !.st = "seen"]
                  ELSE revoked
    /\ svpc' = "token"
    /\ UNCHANGED <<now, NotSV>>

(* _check_token_health 405-421: the token is fetched and validated. *)
SvToken ==
    /\ svpc = "token"
    /\ svpc' = "consistency"
    /\ UNCHANGED <<now, esvars, recent_recoveries, restarts, revoked, NotSV>>

(* _check_streamer_consistency 423-439, the subscription check: more than
   three channels with an id lack a subscription, and the push service is
   restarted. The tick ends and the loop sleeps. *)
SvConsistency ==
    /\ svpc = "consistency"
    /\ IF Cardinality(streamers) >
            Cardinality(DOMAIN active_subscriptions) + mismatch_slack
       THEN /\ RestartEventsub
            /\ restarts' = Noted(restarts, now)
       ELSE UNCHANGED <<esvars, restarts>>
    /\ revoked' = IF revoked.st = "seen" THEN [revoked EXCEPT !.st = "ticked"]
                  ELSE revoked
    /\ svpc' = "sleep"
    /\ UNCHANGED <<now, recent_recoveries, NotSV>>

(* _supervision_loop 377: the sleep between two ticks. *)
SvSleep ==
    /\ svpc = "sleep"
    /\ now + supervision_interval <= MaxTimeSV
    /\ now' = now + supervision_interval
    /\ svpc' = "health"
    /\ UNCHANGED <<esvars, recent_recoveries, restarts, revoked, NotSV>>

(* _handle_connection 439-453: a revocation message for a channel's
   subscription; the subscription is taken out of both tables. *)
Revocation(u) ==
    /\ cpc = "loop"
    /\ u \in DOMAIN active_subscriptions
    /\ active_subscriptions[u].session_id = connection_session_id
    /\ subscriptions_by_session' =
         RemovedBySession(active_subscriptions, subscriptions_by_session, u)
    /\ active_subscriptions' = RemovedActive(active_subscriptions, u)
    /\ revoked' = [user |-> u, st |-> "revoked"]
    /\ UNCHANGED <<now, streamers, ws_status, cpc, connection_session_id, batch,
                   session_ids, reconnect_urls, sessions_issued, wtask,
                   recent_recoveries, svpc, restarts, NotSV>>

InitSV ==
    /\ InitES
    /\ IdleSV

NextSV ==
    \/ SvHealth
    \/ SvToken
    \/ SvConsistency
    \/ SvSleep
    \/ \E u \in ESUsers : Revocation(u)
    \/ ConnOpen
    \/ Welcome(TRUE)
    \/ Resubscribe
    \/ ConnError
    \/ Retry

----------------------------------------------------------------------------
(* set-roster: WebHandlers.update_streamers, with the tasks it creates
   (add_streamer_subscription, remove_streamer_subscription, stop_download).
   Channels are known by their number, as in the push service; a channel
   whose id lookup failed is on the roster without an id. The operator sends
   a roster while a session is known; the connection stays up. Each roster
   sent keeps the channels of Kept and takes any of Optional. *)

Kept == 1 .. (batch_size - 1)

Optional == batch_size .. (batch_size + 1)

Rosters == {Kept \cup S : S \in SUBSET Optional}

(* The handler at rest, for the runs of the other components. *)
IdleSR ==
    /\ noid = {}
    /\ pending = EmptyBag
    /\ requests = [n |-> 0, last |-> {}, again |-> FALSE]

InitSR ==
    /\ InitES
    /\ IdleSR

dlrest == <<download_cooldowns, download_lock, configured_streamers, workers,
            dtask, outcome>>

NotSR == <<now, dlrest, tmvars, pvars, svvars, nvars, rcvars, tivars, cnvars, suvars,
          envars,
          puvars,
          rsvars>>

(* handlers.py 149: the channels of the request that are not on the roster. *)
NewStreamers_All(X, current) == X

NewStreamers(X, current) == X \ current

(* handlers.py 152: the channels of the roster that the request leaves out. *)
RemovedStreamers(X, current) == current \ X

StopTask(u) == [kind |-> "stop", user |-> u, is_live |-> FALSE]

RemoveTask(u) == [kind |-> "remove", user |-> u, is_live |-> FALSE]

(* update_streamers 135-247, one request: "X" is the roster sent, "found" the
   new channels whose id lookup succeeded, "live" those of them found live.
   Removed channels get a stop_download task and, with an id, a
   remove_streamer_subscription task; channels already on the roster keep
   their entry; new ones are entered with what was fetched; the roster is
   saved; new channels with an id get an add_streamer_subscription task. *)
UpdateStreamers(X, found, live) ==
    /\ requests.n < MaxRequests
    /\ Len(session_ids) > 0
    /\ cpc = "loop"
    /\ LET current == streamers \cup noid
           new     == NewStreamers(X, current)
           removed == RemovedStreamers(X, current)
       IN  /\ found \subseteq new
           /\ live \subseteq found
           /\ streamers' = (streamers \cap X) \cup found
           /\ noid' = ((noid \cap X) \cup new) \ found
           /\ isLive' = [u \in DOMAIN isLive |->
                           IF u \in removed THEN FALSE
                           ELSE IF u \in new THEN u \in live
                           ELSE isLive[u]]
           /\ pending' = pending
                 (+) SetToBag({StopTask(u) : u \in removed})
                 (+) SetToBag({RemoveTask(u) : u \in removed \cap streamers})
                 (+) SetToBag({[kind |-> "add", user |-> u, is_live |-> u \in live] :
                                 u \in found})
    /\ requests' = [n |-> requests.n + 1, last |-> X,
                    again |-> requests.n > 0 /\ X = requests.last]
    /\ UNCHANGED <<active_downloads, ws_status, cpc, connection_session_id, batch,
                   session_ids, active_subscriptions, subscriptions_by_session,
                   reconnect_urls, sessions_issued, wtask, NotSR>>

(* A created task runs. add_streamer_subscription 1264-1369 with a session
   known: clean the channel's subscription, select a session, create the
   subscription and record it. remove_streamer_subscription 1371-1529: take
   the subscription out of both tables. stop_download 386-428: drop the
   channel's job, if it has one. *)
RunTask(task) ==
    /\ BagIn(task, pending)
    /\ pending' = pending (-) SetToBag({task})
    /\ LET u    == task.user
           ev   == EventTypeFor(task.is_live)
           bys1 == RemovedBySession(active_subscriptions, subscriptions_by_session, u)
           act1 == RemovedActive(active_subscriptions, u)
           sid  == SelectSession(session_ids, bys1)
           bys2 == IF sid \in DOMAIN bys1 THEN bys1 ELSE DictSet(bys1, sid, EmptyDict)
       IN  CASE task.kind = "add" ->
                  /\ active_subscriptions' =
                       DictSet(act1, u, [event_type |-> ev, session_id |-> sid])
                  /\ subscriptions_by_session' = PutUser(bys2, sid, u, ev)
                  /\ UNCHANGED active_downloads
             [] task.kind = "remove" ->
                  /\ active_subscriptions' = act1
                  /\ subscriptions_by_session' = bys1
                  /\ UNCHANGED active_downloads
             [] task.kind = "stop" ->
                  /\ active_downloads' = DictDel(active_downloads, u)
                  /\ UNCHANGED <<active_subscriptions, subscriptions_by_session>>
    /\ UNCHANGED <<isLive, streamers, noid, requests, ws_status, cpc,
                   connection_session_id, batch, session_ids, reconnect_urls,
                   sessions_issued, wtask, NotSR>>

(* start_download for a live channel of the roster, taken as one step: the
   channel has a Recording Job. *)
JobStarted(u) ==
    /\ u \in streamers
    /\ isLive[u]
    /\ u \notin DOMAIN active_downloads
    /\ active_downloads' = DictSet(active_downloads, u, 1)
    /\ UNCHANGED <<isLive, streamers, noid, pending, requests, ws_status, cpc,
                   connection_session_id, batch, session_ids,
                   active_subscriptions, subscriptions_by_session,
                   reconnect_urls, sessions_issued, wtask, NotSR>>

NextSR ==
    \/ \E X \in Rosters, found \in SUBSET Optional, live \in SUBSET Optional :
          UpdateStreamers(X, found, live)
    \/ \E task \in [kind : {"add", "remove", "stop"}, user : Optional,
                      is_live : BOOLEAN] : RunTask(task)
    \/ \E u \in Optional : JobStarted(u)
    \/ ConnOpen
    \/ Welcome(TRUE)
    \/ Resubscribe

----------------------------------------------------------------------------
(* The naming policy of start_download 259-275: the destination file of a
   recording, from the stream title and the files of the channel directory.
   A title is a sequence of characters; all recordings are of one day, so a
   file of the directory is known by the sanitized title of its name and its
   counter (0 for the name without a suffix). The worker creates the file it
   was given; the operator may delete files. *)

Alphabet == {"a", "<", ">", ":", "\"", "/", "\\", "|", "?", "*"}

max_title_len == 100

kept_title_len == 97

(* A title of n characters, all "a" but the k-th, which is c. *)
LongTitle(n, k, c) == [i \in 1 .. n |-> IF i = k THEN c ELSE "a"]

Titles ==
    {<<c>> : c \in Alphabet}
      \cup {<<c, d>> : c \in {"a", "/", "\\"}, d \in {"a", "?", "*"}}
      \cup {LongTitle(n, k, c) : n \in {max_title_len, max_title_len + 1},
                                 k \in {kept_title_len, max_title_len},
                                 c \in {"a", ":"}}

NoPath == [base |-> <<>>, counter |-> 0]

(* No recording named yet, for the runs of the other components. *)
IdleFN ==
    /\ dir = {}
    /\ stream_title = <<>>
    /\ filepath = NoPath
    /\ named = 0

NotFN == <<now, isLive, dlvars, tmvars, esvars, pvars, svvars, rvars, rcvars,
          tivars, cnvars, suvars,
          envars,
          puvars,
          rsvars>>

(* Line 260: re.sub(r'[<>:"/\\|?*]', '_', stream_title). *)
Sanitize_KeepSeparators(title) ==
    [i \in 1 .. Len(title) |->
        IF title[i] \in {"<", ">", ":", "\"", "|", "?", "*"} THEN "_" ELSE title[i]]

Sanitize(title) ==
    [i \in 1 .. Len(title) |->
        IF title[i] \in {"<", ">", ":", "\"", "/", "\\", "|", "?", "*"}
        THEN "_" ELSE title[i]]

(* Lines 263-264: a title of more than 100 characters is cut to 97 and
   "..." is put after it. *)
Truncate(safe_title) ==
    IF Len(safe_title) > max_title_len
    THEN SubSeq(safe_title, 1, kept_title_len) \o <<".", ".", ".">>
    ELSE safe_title

Path(base, counter) == [base |-> base, counter |-> counter]

(* Lines 270-275: the counter goes up from 0 while the path exists. *)
RECURSIVE Probe(_, _, _)
Probe(existing, base, counter) ==
    IF Path(base, counter) \in existing
    THEN Probe(existing, base, counter + 1)
    ELSE counter

(* start_download 260-275 and _download_stream_thread 473: the path is
   computed for the title, and the worker opens it for writing. *)
NameFile(title) ==
    /\ named < MaxNamed
    /\ LET base == Truncate(Sanitize(title)) IN
         /\ filepath' = Path(base, Probe(dir, base, 0))
         /\ dir' = dir \cup {filepath'}
    /\ stream_title' = title
    /\ named' = named + 1
    /\ UNCHANGED NotFN

(* The operator deletes a recording from the channel directory (followed
   here only while another name is still to be computed). *)
DeleteFile(f) ==
    /\ named < MaxNamed
    /\ f \in dir
    /\ dir' = dir \ {f}
    /\ UNCHANGED <<stream_title, filepath, named, NotFN>>

InitFN ==
    /\ now = 0
    /\ isLive = [c \in Channels |-> FALSE]
    /\ IdleFN

NextFN ==
    \/ \E title \in Titles : NameFile(title)
    \/ \E title \in Titles, n \in 0 .. MaxNamed :
          DeleteFile(Path(Truncate(Sanitize(title)), n))

----------------------------------------------------------------------------
(* Recording threads and their destination files
   (download_service.py: start_download, stop_download,
   _download_stream_thread, _handle_download_completion) *)

MaxThreads == 3

MaxTimeRC == 62

(* Reconnect frames Twitch sends to the connection, and connection tasks
   started after the first. *)
MaxFrames == 2

MaxTasks == 1

ThreadIds == 1 .. MaxThreads

NoTime == 0 - 1

(* The titles a stream of the channel carries when a recording starts. *)
RecTitles == {<<"a">>, <<"/", "a">>}

UnusedThread ==
    [chan |-> NoChan, st |-> "unused", filepath |-> NoPath, cancel |-> FALSE,
     started |-> NoTime, stopped |-> NoTime]

(* No recording thread, for the runs of the other components. *)
IdleRC ==
    /\ threads = [w \in ThreadIds |-> UnusedThread]
    /\ opened = {}
    /\ stopping = NoChan

NotRC == <<isLive, download_lock, configured_streamers, workers, dtask, outcome,
          tmvars, esvars, pvars, svvars, rvars, stream_title, filepath, named,
          tivars, cnvars, suvars,
          envars,
          puvars,
          rsvars>>

FreeThreads == {w \in ThreadIds : threads[w].st = "unused"}

(* More than one cooldown period passes (never within the 0.5 s sleep of a
   stop_download call). *)
TickRC ==
    /\ stopping = NoChan
    /\ now + cooldown_duration + 1 <= MaxTimeRC
    /\ now' = now + cooldown_duration + 1
    /\ UNCHANGED <<active_downloads, download_cooldowns, dir, rcvars, NotRC>>

(* start_download 137-370 for a live channel with a usable title: the
   duplicate check, the cooldown check, the destination path (260-275,
   probed against the files that exist now), the Event, the thread and the
   job. Nothing is awaited between the probe and the start of the thread. *)
StartRecording(c, title) ==
    /\ ~AlreadyDownloading(c)
    /\ ~InCooldown(c, now)
    /\ FreeThreads # {}
    /\ LET w    == CHOOSE x \in FreeThreads : \A y \in FreeThreads : x <= y
           base == Truncate(Sanitize(title))
       IN  /\ threads' = [threads EXCEPT ![w] =
                             [chan |-> c, st |-> "opening",
                              filepath |-> Path(base, Probe(dir, base, 0)),
                              cancel |-> FALSE, started |-> now,
                              stopped |-> NoTime]]
           /\ active_downloads' = DictSet(active_downloads, c, w)
    /\ UNCHANGED <<now, download_cooldowns, dir, opened, stopping, NotRC>>

(* stop_download 397-407: the job is tracked; set the Event of its thread
   and sleep 0.5 s. *)
StopRecording(c) ==
    /\ stopping = NoChan
    /\ c \in DOMAIN active_downloads
    /\ threads' = [threads EXCEPT ![active_downloads[c]] =
                      [@ EXCEPT !.cancel = TRUE, !.stopped = now]]
    /\ stopping' = c
    /\ UNCHANGED <<now, active_downloads, download_cooldowns, dir, opened, NotRC>>

(* stop_download 410-428, after the sleep: the job and the Event are
   deleted (KeyError when a completion removed the job meanwhile). No
   cooldown is installed and the thread is not joined. *)
StopSlept ==
    /\ stopping # NoChan
    /\ active_downloads' = IF stopping \in DOMAIN active_downloads
                           THEN DictDel(active_downloads, stopping)
                           ELSE active_downloads
    /\ stopping' = NoChan
    /\ UNCHANGED <<now, download_cooldowns, dir, threads, opened, NotRC>>

(* _download_stream_thread 452-473: the renditions were fetched, the stream
   was opened, and open(filepath, "wb") creates or truncates the file. The
   Event is first tested after the file is open (474). *)
ThreadOpen(w) ==
    /\ threads[w].st = "opening"
    /\ opened' = opened \cup {[w |-> w, filepath |-> threads[w].filepath]}
    /\ dir' = dir \cup {threads[w].filepath}
    /\ threads' = [threads EXCEPT ![w].st = "writing"]
    /\ UNCHANGED <<now, active_downloads, download_cooldowns, stopping, NotRC>>

(* 454-456: no rendition offered; the thread returns without a completion. *)
ThreadNoStreams(w) ==
    /\ threads[w].st = "opening"
    /\ threads' = [threads EXCEPT ![w].st = "exited"]
    /\ UNCHANGED <<now, active_downloads, download_cooldowns, dir, opened,
                   stopping, NotRC>>

(* 507-519: fetching or opening raised; a completion is posted. *)
ThreadException(w) ==
    /\ threads[w].st = "opening"
    /\ threads' = [threads EXCEPT ![w].st = "posted"]
    /\ UNCHANGED <<now, active_downloads, download_cooldowns, dir, opened,
                   stopping, NotRC>>

(* 474-505: the read loop ends; a cancelled thread returns silently, any
   other posts its completion. *)
ThreadLoopExit(w) ==
    /\ threads[w].st = "writing"
    /\ threads' = [threads EXCEPT ![w].st =
                      IF threads[w].cancel THEN "exited" ELSE "posted"]
    /\ UNCHANGED <<now, active_downloads, download_cooldowns, dir, opened,
                   stopping, NotRC>>

(* _handle_download_completion 526-530: whatever job the channel has now is
   dropped and the cooldown is installed. *)
Completion(w) ==
    /\ threads[w].st = "posted"
    /\ LET c == threads[w].chan IN
         /\ active_downloads' = IF c \in DOMAIN active_downloads
                                THEN DictDel(active_downloads, c)
                                ELSE active_downloads
         /\ download_cooldowns' =
               DictSet(download_cooldowns, c, now + cooldown_duration)
    /\ threads' = [threads EXCEPT ![w].st = "exited"]
    /\ UNCHANGED <<now, dir, opened, stopping, NotRC>>

InitRC ==
    /\ now = 0
    /\ isLive = [c \in Channels |-> TRUE]
    /\ IdleRC

NextRC ==
    \/ TickRC
    \/ \E c \in Channels, title \in RecTitles : StartRecording(c, title)
    \/ \E c \in Channels : StopRecording(c)
    \/ StopSlept
    \/ \E w \in ThreadIds : ThreadOpen(w)
    \/ \E w \in ThreadIds : ThreadNoStreams(w)
    \/ \E w \in ThreadIds : ThreadException(w)
    \/ \E w \in ThreadIds : ThreadLoopExit(w)
    \/ \E w \in ThreadIds : Completion(w)

----------------------------------------------------------------------------
(* The channel's title across notifications and polls
   (eventsub_service.py _handle_notification, background_service.py
   _update_all_streamers, settings.py get/update_monitored_streamers) *)

StreamTitles == {"Speedrun", "Chill"}

OfflineTitle == "Offline"

DefaultTitle == "alice's Stream"

(* The value standing for a key the entry does not have. *)
Missing == "(missing)"

(* settings.py 149-167: the entry that update_monitored_streamers writes.
   The cleaned copy has isLive and title (with a default) and no lastTitle
   key. *)
CleanEntry(settings) ==
    [isLive    |-> settings.isLive,
     title     |-> IF settings.title = Missing THEN DefaultTitle ELSE settings.title,
     lastTitle |-> Missing]

(* eventsub_service.py 1094 and background_service.py 187:
   settings.get("title") and settings.get("title") != "Offline". *)
WorthKeeping(title) == title \notin {Missing, "", OfflineTitle}

(* No notification. "known" tells whether the broadcaster id of a
   notification is the twitch_id of a roster channel (1022-1028). *)
NoMsg == [kind |-> "none", known |-> TRUE, stream_type |-> "none"]

(* _handle_notification 1030-1032 and 1040-1042: the notifications that are
   dropped. *)
Dropped_UnknownOnly(msg) == ~msg.known

Dropped(msg) ==
    \/ ~msg.known
    \/ msg.kind = "stream.online" /\ msg.stream_type # "live"

IdlePoll == [pc |-> "idle", settings |-> CleanEntry([isLive |-> FALSE,
                                                      title |-> OfflineTitle,
                                                      lastTitle |-> Missing])]

(* An offline channel nobody polls, for the runs of the other components. *)
IdleTI ==
    /\ roster_entry = [isLive |-> FALSE, title |-> OfflineTitle, lastTitle |-> Missing]
    /\ channel_info = [stream |-> FALSE, title |-> "Speedrun"]
    /\ event_type = "stream.online"
    /\ inbox = NoMsg
    /\ last_handled = NoMsg
    /\ title_before = Missing
    /\ phase = "none"
    /\ poll = IdlePoll

NotTI == <<now, isLive, dlvars, tmvars, esvars, pvars, svvars, rvars, nvars,
          rcvars, cnvars, suvars,
          envars,
          puvars,
          rsvars>>

(* The service has started: the entry shows what Twitch reports, and the
   subscription was created for the opposite transition
   (eventsub_service.py 1300). *)
InitTI ==
    /\ channel_info \in [stream : BOOLEAN, title : StreamTitles]
    /\ roster_entry = [isLive    |-> channel_info.stream,
                       title     |-> IF channel_info.stream THEN channel_info.title
                                     ELSE OfflineTitle,
                       lastTitle |-> Missing]
    /\ event_type = IF channel_info.stream THEN "stream.offline" ELSE "stream.online"
    /\ inbox = NoMsg
    /\ last_handled = NoMsg
    /\ title_before = Missing
    /\ phase = "none"
    /\ poll = IdlePoll

(* Twitch: the channel goes live under a title, with a live stream or a
   rerun; the subscribed transition is notified. *)
GoLive(t, stream_type) ==
    /\ ~channel_info.stream
    /\ inbox = NoMsg
    /\ channel_info' = [stream |-> TRUE, title |-> t]
    /\ inbox' = IF event_type = "stream.online"
                THEN [kind |-> "stream.online", known |-> TRUE,
                      stream_type |-> stream_type]
                ELSE NoMsg
    /\ UNCHANGED <<roster_entry, event_type, last_handled, title_before, phase,
                   poll, NotTI>>

(* Twitch: the stream ends. *)
EndStream ==
    /\ channel_info.stream
    /\ inbox = NoMsg
    /\ channel_info' = [channel_info EXCEPT !.stream = FALSE]
    /\ inbox' = IF event_type = "stream.offline"
                THEN [kind |-> "stream.offline", known |-> TRUE,
                      stream_type |-> "none"]
                ELSE NoMsg
    /\ UNCHANGED <<roster_entry, event_type, last_handled, title_before, phase,
                   poll, NotTI>>

(* Twitch: a notification of a subscription that outlived its channel's
   roster entry; its broadcaster id is the twitch_id of no roster channel. *)
Foreign(kind) ==
    /\ inbox = NoMsg
    /\ inbox' = [kind |-> kind, known |-> FALSE,
                 stream_type |-> IF kind = "stream.online" THEN "live" ELSE "none"]
    /\ UNCHANGED <<roster_entry, channel_info, event_type, last_handled,
                   title_before, phase, poll, NotTI>>

(* Twitch: the broadcaster renames the running stream. *)
Retitle(t) ==
    /\ channel_info.stream
    /\ channel_info.title # t
    /\ channel_info' = [channel_info EXCEPT !.title = t]
    /\ UNCHANGED <<roster_entry, event_type, inbox, last_handled, title_before,
                   phase, poll, NotTI>>

(* _handle_notification 1016-1083, stream.online: a notification of an
   unknown broadcaster and anything but a live stream are dropped; otherwise
   isLive is set and the roster is saved. The title is not touched. The
   subscription is switched when the entry was offline. *)
HandleOnline ==
    /\ inbox.kind = "stream.online"
    /\ inbox' = NoMsg
    /\ last_handled' = inbox
    /\ IF Dropped(inbox)
       THEN UNCHANGED <<roster_entry, event_type, phase>>
       ELSE LET settings == roster_entry IN
              /\ roster_entry' = CleanEntry([settings EXCEPT !.isLive = TRUE])
              /\ event_type' = IF ~settings.isLive THEN "stream.offline"
                               ELSE event_type
              /\ phase' = IF phase = "ended" THEN "started" ELSE phase
    /\ UNCHANGED <<channel_info, title_before, poll, NotTI>>

(* _handle_notification 1016-1032, 1085-1130, stream.offline: a notification
   of an unknown broadcaster is dropped; otherwise isLive is cleared, a
   title worth keeping goes to lastTitle of the dictionary, the title
   becomes "Offline", and the roster is saved. *)
HandleOffline ==
    /\ inbox.kind = "stream.offline"
    /\ inbox' = NoMsg
    /\ last_handled' = inbox
    /\ IF Dropped(inbox)
       THEN UNCHANGED <<roster_entry, event_type, title_before, phase>>
       ELSE LET settings == roster_entry IN
              /\ roster_entry' =
                    CleanEntry([isLive    |-> FALSE,
                                title     |-> OfflineTitle,
                                lastTitle |-> IF WorthKeeping(settings.title)
                                              THEN settings.title
                                              ELSE settings.lastTitle])
              /\ event_type' = IF settings.isLive THEN "stream.online"
                               ELSE event_type
              /\ title_before' = settings.title
              /\ phase' = "ended"
    /\ UNCHANGED <<channel_info, poll, NotTI>>

(* _update_all_streamers 164-172: the roster is read (settings.py 96-117
   gives the title fields as they are in the file) and the channel query is
   awaited. *)
PollRead ==
    /\ poll.pc = "idle"
    /\ poll' = [pc |-> "asked", settings |-> roster_entry]
    /\ UNCHANGED <<roster_entry, channel_info, event_type, inbox, last_handled,
                   title_before, phase, NotTI>>

(* The entry _update_all_streamers 174-231 makes of the entry it read and of
   the answer of the channel query. *)
Polled(settings, info) ==
    LET was_live == settings.isLive
        is_live  == info.stream
        flagged  == [settings EXCEPT !.isLive = is_live]
        turned   == IF ~is_live /\ was_live
                    THEN [flagged EXCEPT
                            !.lastTitle = IF WorthKeeping(settings.title)
                                          THEN settings.title ELSE @,
                            !.title = OfflineTitle]
                    ELSE IF is_live /\ ~was_live /\ flagged.lastTitle # Missing
                    THEN [flagged EXCEPT !.title = flagged.lastTitle]
                    ELSE flagged
    IN  IF is_live /\ info.title # ""
        THEN [turned EXCEPT !.title = info.title]
        ELSE turned

(* _update_all_streamers 174-248: the query is answered (or fails) and the
   dictionary read before the await is saved over the roster file. *)
PollAnswer(answered) ==
    /\ poll.pc = "asked"
    /\ roster_entry' = CleanEntry(IF answered THEN Polled(poll.settings, channel_info)
                                  ELSE poll.settings)
    /\ poll' = IdlePoll
    /\ phase' = IF roster_entry' # roster_entry THEN "none" ELSE phase
    /\ UNCHANGED <<channel_info, event_type, inbox, last_handled, title_before,
                   NotTI>>

NextTI ==
    \/ \E t \in StreamTitles, stream_type \in {"live", "rerun"} :
          GoLive(t, stream_type)
    \/ EndStream
    \/ \E t \in StreamTitles : Retitle(t)
    \/ \E kind \in {"stream.online", "stream.offline"} : Foreign(kind)
    \/ HandleOnline
    \/ HandleOffline
    \/ PollRead
    \/ \E answered \in BOOLEAN : PollAnswer(answered)

----------------------------------------------------------------------------
(* EventSubService._handle_connection 257-573, the retry loop of one
   connection task. What the task does with the subscriptions once it is
   welcomed is the subject of the push service section; here a welcomed
   connection only reads frames. A step is the code between two awaits.
   Twitch sends at most MaxFrames reconnect frames, each with a URL of its
   own, and _check_connections starts at most MaxTasks tasks after the
   first. *)

DefaultUrl == 0

NoUrl == 0 - 1

FrameUrls == 1 .. MaxFrames

(* retry_delay is kept in units of 1 / DelayUnit seconds, which holds every
   value 2 * 1.5^k below the cap exactly. *)
DelayUnit == 2 ^ 13

(* Line 534 / 562: retry_delay = min(retry_delay * 1.5, 300). *)
NextDelay(d) == MinOf({(d * 3) \div 2, retry_cap * DelayUnit})

(* Lines 290-291: ws_url = reconnect_url if reconnect_url else the default
   endpoint. *)
DialUrl_Default(url) == DefaultUrl

DialUrl(url) == IF url # NoUrl THEN url ELSE DefaultUrl

(* No connection task, for the runs of the other components. *)
IdleCN ==
    /\ loop_pc = "done"
    /\ running = FALSE
    /\ conn_status = "connecting"
    /\ retry_count = 0
    /\ retry_delay = initial_retry_delay * DelayUnit
    /\ reconnect_url = NoUrl
    /\ ws_url = DefaultUrl
    /\ frame_url = NoUrl
    /\ url_dials = [u \in FrameUrls |-> 0]
    /\ frames = 0
    /\ failed_dials = 0
    /\ task_no = 0

NotCN == <<now, isLive, dlvars, tmvars, esvars, pvars, svvars, rvars, nvars,
          rcvars, tivars, suvars,
          envars,
          puvars,
          rsvars>>

(* start() 71-81 and _create_connections 203-219: the service runs, no
   reconnect URL is stored, the task is created with status "connecting". *)
InitCN ==
    /\ loop_pc = "start"
    /\ running = TRUE
    /\ conn_status = "connecting"
    /\ retry_count = 0
    /\ retry_delay = initial_retry_delay * DelayUnit
    /\ reconnect_url = NoUrl
    /\ ws_url = DefaultUrl
    /\ frame_url = NoUrl
    /\ url_dials = [u \in FrameUrls |-> 0]
    /\ frames = 0
    /\ failed_dials = 0
    /\ task_no = 0

(* Lines 287-303 and 564-573, from the loop test to the next await: with
   retries left and the service running the task takes the stored reconnect
   URL out of reconnect_urls and dials; otherwise it leaves the loop, marks
   the connection "failed" if the retries are used up, and returns. *)
LoopTop(count, status) ==
    IF count < max_retries /\ running
    THEN /\ loop_pc' = "dialing"
         /\ ws_url' = DialUrl(reconnect_url)
         /\ reconnect_url' = NoUrl
         /\ frame_url' = NoUrl
         /\ url_dials' = IF DialUrl(reconnect_url) \in FrameUrls
                         THEN [url_dials EXCEPT ![DialUrl(reconnect_url)] = @ + 1]
                         ELSE url_dials
         /\ conn_status' = status
    ELSE /\ loop_pc' = "done"
         /\ conn_status' = IF count >= max_retries THEN "failed" ELSE status
         /\ UNCHANGED <<ws_url, reconnect_url, frame_url, url_dials>>

(* Lines 274-287: the task starts to run. *)
TaskStart ==
    /\ loop_pc = "start"
    /\ retry_count' = 0
    /\ retry_delay' = initial_retry_delay * DelayUnit
    /\ LoopTop(0, "connecting")
    /\ UNCHANGED <<running, frames, failed_dials, task_no, NotCN>>

(* Lines 299-317: the socket is open; the status becomes "connected" and the
   task waits for the welcome message. *)
SocketOpen ==
    /\ loop_pc = "dialing"
    /\ loop_pc' = "welcome"
    /\ conn_status' = "connected"
    /\ UNCHANGED <<running, retry_count, retry_delay, reconnect_url, ws_url,
                   frame_url, url_dials, frames, failed_dials, task_no, NotCN>>

(* Lines 317-336 and on to the message loop at 410: the welcome message is
   read; retry_count and retry_delay are reset. *)
WelcomeFrame ==
    /\ loop_pc = "welcome"
    /\ loop_pc' = "listening"
    /\ retry_count' = 0
    /\ retry_delay' = initial_retry_delay * DelayUnit
    /\ failed_dials' = 0
    /\ UNCHANGED <<running, conn_status, reconnect_url, ws_url, frame_url,
                   url_dials, frames, task_no, NotCN>>

(* Lines 422-435: a session_reconnect frame; its URL is stored, the status
   becomes "reconnecting", and the task awaits websocket.close(). *)
SessionReconnect ==
    /\ loop_pc = "listening"
    /\ frames < MaxFrames
    /\ frames' = frames + 1
    /\ reconnect_url' = frames + 1
    /\ frame_url' = frames + 1
    /\ conn_status' = "reconnecting"
    /\ loop_pc' = "closing"
    /\ UNCHANGED <<running, retry_count, retry_delay, ws_url, url_dials,
                   failed_dials, task_no, NotCN>>

(* Lines 435-438 and 487-488: close() returns, the message loop is left, the
   retry count is reset, and the outer loop comes round. *)
SocketClosed ==
    /\ loop_pc = "closing"
    /\ retry_count' = 0
    /\ LoopTop(0, conn_status)
    /\ UNCHANGED <<running, retry_delay, frames, failed_dials, task_no, NotCN>>

(* Lines 455-482 and 490-532, 536-560: an await inside the try raises: the
   dial fails, the socket closes or sends something unreadable, a read times
   out and the ping fails, close() fails. The handler sets the status,
   counts the attempt and sleeps retry_delay. A closure has the status
   "disconnected", anything else "error". *)
Raised(closure) ==
    /\ loop_pc \in {"dialing", "welcome", "listening", "closing"}
    /\ closure => loop_pc # "dialing"
    /\ conn_status' = IF closure THEN "disconnected" ELSE "error"
    /\ retry_count' = retry_count + 1
    /\ failed_dials' = IF loop_pc \in {"dialing", "welcome"}
                       THEN failed_dials + 1 ELSE failed_dials
    /\ loop_pc' = "backoff"
    /\ UNCHANGED <<running, retry_delay, reconnect_url, ws_url, frame_url,
                   url_dials, frames, task_no, NotCN>>

(* Lines 533-534 / 561-562 and the loop test: the sleep is over, the delay
   grows, and the outer loop comes round. *)
Slept ==
    /\ loop_pc = "backoff"
    /\ retry_delay' = NextDelay(retry_delay)
    /\ LoopTop(retry_count, conn_status)
    /\ UNCHANGED <<running, retry_count, frames, failed_dials, task_no, NotCN>>

(* stop() 110-113: the service stops running. *)
StopService ==
    /\ running
    /\ running' = FALSE
    /\ UNCHANGED <<loop_pc, conn_status, retry_count, retry_delay,
                   reconnect_url, ws_url, frame_url, url_dials, frames,
                   failed_dials, task_no, NotCN>>

(* stop() 120-123: the task is cancelled where it waits. *)
TaskCancelled ==
    /\ ~running
    /\ loop_pc # "done"
    /\ loop_pc' = "done"
    /\ UNCHANGED <<running, conn_status, retry_count, retry_delay,
                   reconnect_url, ws_url, frame_url, url_dials, frames,
                   failed_dials, task_no, NotCN>>

(* _check_connections 221-255: the task is done; a new one is created for
   the same connection_id, with status "connecting". *)
MonitorRestart ==
    /\ running
    /\ loop_pc = "done"
    /\ task_no < MaxTasks
    /\ task_no' = task_no + 1
    /\ loop_pc' = "start"
    /\ conn_status' = "connecting"
    /\ UNCHANGED <<running, retry_count, retry_delay, reconnect_url, ws_url,
                   frame_url, url_dials, frames, failed_dials, NotCN>>

NextCN ==
    \/ TaskStart
    \/ SocketOpen
    \/ WelcomeFrame
    \/ SessionReconnect
    \/ SocketClosed
    \/ \E closure \in BOOLEAN : Raised(closure)
    \/ Slept
    \/ StopService
    \/ TaskCancelled
    \/ MonitorRestart

----------------------------------------------------------------------------
(* EventSubService with two connections: a roster of batch_size + 1 offline
   channels, which _create_connections 188-219 splits into a batch of
   batch_size channels for connection 1 and a batch of one channel for
   connection 2. Both tasks work on the same tables. twitch_subs is Twitch's
   own list of the client's subscriptions; Twitch answers a create request
   with a conflict when it already lists a subscription of that channel for
   that session, and forgets the subscriptions of a session whose socket has
   closed without a reconnect frame. The steps of a task are the welcome
   with the cleaning of its batch, the adoption of the listed subscriptions,
   the removal of every recorded subscription, and the creation of the
   batch's subscriptions. *)

ConnIds == {1, 2}

SUStreamers == 1 .. (batch_size + 1)

ConnBatch(c) == IF c = 1 THEN 1 .. batch_size ELSE {batch_size + 1}

(* Session ids Twitch hands out in these runs. *)
SUSessions == MaxSessions + 1

NoConn == [pc |-> "none", session_id |-> NoSession]

IdleSU ==
    /\ ws_connections = [c \in ConnIds |-> NoConn]
    /\ twitch_subs = {}
    /\ conflicts = {}

NotSU == <<now, isLive, dlvars, tmvars, streamers, ws_status, cpc,
          connection_session_id, batch, reconnect_urls, wtask, pvars, svvars,
          rvars, nvars, rcvars, tivars, cnvars, envars,
          puvars,
          rsvars>>

(* start() 71-81 and _create_connections 203-219. *)
InitSU ==
    /\ ws_connections = [c \in ConnIds |-> [pc |-> "welcome", session_id |-> NoSession]]
    /\ twitch_subs = {}
    /\ conflicts = {}
    /\ session_ids = <<>>
    /\ active_subscriptions = EmptyDict
    /\ subscriptions_by_session = EmptyDict
    /\ sessions_issued = 0

(* Twitch's list after the DELETE requests of remove_streamer_subscription
   1433-1502 for the channels U, which remove every listed subscription of
   each channel when they are answered 204 and none otherwise. *)
TwitchWithout(subs, U, deleted) ==
    IF deleted THEN {s \in subs : s.user \notin U} ELSE subs

(* Lines 317-343: the welcome message names the session: a new one, or,
   after a reconnect frame, the one the task had. It is recorded; then
   _check_and_clean_streamer_subscriptions 575-587 removes the recorded
   subscription of every channel of the batch. *)
SUWelcome(c, fresh, deleted) ==
    /\ ws_connections[c].pc \in {"welcome", "welcome_re"}
    /\ fresh \/ ws_connections[c].pc = "welcome_re"
    /\ fresh => sessions_issued < SUSessions
    /\ LET sid  == IF fresh THEN sessions_issued + 1 ELSE ws_connections[c].session_id
           mine == ConnBatch(c) \cap DOMAIN active_subscriptions
           bys1 == BysWithout(active_subscriptions, subscriptions_by_session,
                              ConnBatch(c))
       IN  /\ sessions_issued' = IF fresh THEN sid ELSE sessions_issued
           /\ session_ids' = IF sid \in Range(session_ids) THEN session_ids
                             ELSE Append(session_ids, sid)
           /\ subscriptions_by_session' =
                IF sid \in DOMAIN bys1 THEN bys1 ELSE DictSet(bys1, sid, EmptyDict)
           /\ active_subscriptions' = ActWithout(active_subscriptions, ConnBatch(c))
           /\ twitch_subs' = TwitchWithout(twitch_subs, mine, deleted)
           /\ ws_connections' = [ws_connections EXCEPT ![c] =
                                   [pc |-> "adopt", session_id |-> sid]]
    /\ UNCHANGED <<conflicts, NotSU>>

(* _check_existing_subscriptions_with_twitch 589-660: every websocket
   subscription Twitch lists for a roster channel is recorded under the
   session of the calling task, whatever session its transport names. *)
SUAdopt(c) ==
    /\ ws_connections[c].pc = "adopt"
    /\ LET sid    == ws_connections[c].session_id
           listed == {s.user : s \in twitch_subs} \cap SUStreamers
       IN  /\ active_subscriptions' =
                [u \in (DOMAIN active_subscriptions) \cup listed |->
                    IF u \in listed
                    THEN [event_type |-> "stream.online", session_id |-> sid]
                    ELSE active_subscriptions[u]]
           /\ subscriptions_by_session' =
                [s \in (DOMAIN subscriptions_by_session) \cup {sid} |->
                    IF s = sid
                    THEN [u \in (IF sid \in DOMAIN subscriptions_by_session
                                 THEN DOMAIN subscriptions_by_session[sid]
                                 ELSE {}) \cup listed |-> "stream.online"]
                    ELSE subscriptions_by_session[s]]
    /\ ws_connections' = [ws_connections EXCEPT ![c].pc = "purge"]
    /\ UNCHANGED <<twitch_subs, conflicts, session_ids, sessions_issued, NotSU>>

(* Lines 351-363: remove_streamer_subscription for every recorded
   subscription. *)
SUPurge(c, deleted) ==
    /\ ws_connections[c].pc = "purge"
    /\ subscriptions_by_session' =
         BysWithout(active_subscriptions, subscriptions_by_session,
                    DOMAIN active_subscriptions)
    /\ active_subscriptions' = EmptyDict
    /\ twitch_subs' = TwitchWithout(twitch_subs, DOMAIN active_subscriptions, deleted)
    /\ ws_connections' = [ws_connections EXCEPT ![c].pc = "create"]
    /\ UNCHANGED <<conflicts, session_ids, sessions_issued, NotSU>>

(* _create_subscription 704-712 as Twitch answers it: 409 when it lists a
   subscription of the channel for the session, 202 otherwise. *)
Answer(u, sid) ==
    IF [user |-> u, session_id |-> sid] \in twitch_subs THEN 409 ELSE 202

(* _create_subscription 712-715 and 751-768: True for 202, False for any
   other final status. *)
Success(status) == status = 202

(* Lines 368-405: one create request per channel of the batch; a
   subscription is recorded when _create_subscription returns True. *)
SUCreate(c) ==
    /\ ws_connections[c].pc = "create"
    /\ LET sid  == ws_connections[c].session_id
           done == {u \in ConnBatch(c) : Success(Answer(u, sid))}
       IN  /\ conflicts' = {u \in ConnBatch(c) : Answer(u, sid) = 409}
           /\ twitch_subs' = twitch_subs \cup
                {[user |-> u, session_id |-> sid] : u \in ConnBatch(c)}
           /\ active_subscriptions' =
                [u \in (DOMAIN active_subscriptions) \cup done |->
                    IF u \in done
                    THEN [event_type |-> "stream.online", session_id |-> sid]
                    ELSE active_subscriptions[u]]
           /\ subscriptions_by_session' =
                IF sid \in DOMAIN subscriptions_by_session
                THEN [subscriptions_by_session EXCEPT ![sid] =
                        [u \in (DOMAIN @) \cup done |->
                            IF u \in done THEN "stream.online" ELSE @[u]]]
                ELSE subscriptions_by_session
    /\ ws_connections' = [ws_connections EXCEPT ![c].pc = "listening"]
    /\ UNCHANGED <<session_ids, sessions_issued, NotSU>>

(* Lines 422-438: a session_reconnect frame; the task closes the socket and
   dials the reconnect URL, its session and the tables left as they are. *)
SUReconnect(c) ==
    /\ ws_connections[c].pc = "listening"
    /\ ws_connections' = [ws_connections EXCEPT ![c].pc = "welcome_re"]
    /\ UNCHANGED <<twitch_subs, conflicts, session_ids, active_subscriptions,
                   subscriptions_by_session, sessions_issued, NotSU>>

(* Lines 490-534: the socket of a welcomed connection closes; the task
   forgets its session with the subscriptions recorded under it, and dials
   again. *)
SUClosed(c) ==
    /\ ws_connections[c].pc \in {"adopt", "purge", "create", "listening"}
    /\ LET sid == ws_connections[c].session_id IN
         /\ session_ids' = SelectSeq(session_ids, LAMBDA x : x # sid)
         /\ IF sid \in DOMAIN subscriptions_by_session
            THEN /\ active_subscriptions' =
                      [u \in {x \in DOMAIN active_subscriptions :
                                ~( /\ x \in DOMAIN subscriptions_by_session[sid]
                                   /\ active_subscriptions[x].session_id = sid )}
                         |-> active_subscriptions[u]]
                 /\ subscriptions_by_session' =
                      [x \in (DOMAIN subscriptions_by_session) \ {sid}
                         |-> subscriptions_by_session[x]]
            ELSE UNCHANGED <<active_subscriptions, subscriptions_by_session>>
         /\ twitch_subs' = {s \in twitch_subs : s.session_id # sid}
    /\ ws_connections' = [ws_connections EXCEPT ![c].pc = "welcome"]
    /\ UNCHANGED <<conflicts, sessions_issued, NotSU>>

(* _handle_notification 1064-1069 and 1111-1116: the create request of a
   flip, made after the removal, returned True: it was sent and answered,
   and the answer was 202. *)
FlipCreated(u, sid, subs, refused) == ~refused /\ Success(IF [user |-> u, session_id |-> sid] \in subs THEN 409 ELSE 202)

(* _handle_notification 1047-1083 and 1091-1130 on a listening connection,
   for a notification of the kind recorded for the channel, the roster's
   flag being the one that kind was subscribed for (old_state differs from
   the flag written). The recorded subscription is removed
   (remove_streamer_subscription, answered 204 or not), a subscription of
   the other kind is requested for the session the record named, and the
   record is written under that session; "refused" is a request that fails
   or is answered with an error. *)
SUFlip(c, u, deleted, refused) ==
    /\ ws_connections[c].pc = "listening"
    /\ [user |-> u, session_id |-> ws_connections[c].session_id] \in twitch_subs
    /\ u \in DOMAIN active_subscriptions
    /\ active_subscriptions[u].session_id # NoSession
    /\ LET sid   == active_subscriptions[u].session_id
           kind  == IF active_subscriptions[u].event_type = "stream.online"
                    THEN "stream.offline" ELSE "stream.online"
           subs1 == TwitchWithout(twitch_subs, {u}, deleted)
           bys1  == RemovedBySession(active_subscriptions,
                                     subscriptions_by_session, u)
       IN  /\ twitch_subs' = IF FlipCreated(u, sid, subs1, refused)
                             THEN subs1 \cup {[user |-> u, session_id |-> sid]}
                             ELSE subs1
           /\ conflicts' = IF ~refused /\ [user |-> u, session_id |-> sid] \in subs1
                           THEN conflicts \cup {u} ELSE conflicts \ {u}
           /\ active_subscriptions' =
                DictSet(active_subscriptions, u,
                        [event_type |-> kind, session_id |-> sid])
           /\ subscriptions_by_session' = PutUser(bys1, sid, u, kind)
    /\ UNCHANGED <<ws_connections, session_ids, sessions_issued, NotSU>>

NextSU ==
    \/ \E c \in ConnIds, fresh \in BOOLEAN, deleted \in BOOLEAN :
          SUWelcome(c, fresh, deleted)
    \/ \E c \in ConnIds : SUAdopt(c)
    \/ \E c \in ConnIds, deleted \in BOOLEAN : SUPurge(c, deleted)
    \/ \E c \in ConnIds : SUCreate(c)
    \/ \E c \in ConnIds : SUReconnect(c)
    \/ \E c \in ConnIds : SUClosed(c)

(* The connection of the first batch alone, with the notifications of its
   channels whose stream starts and ends. *)
FlipConn == 1

NextFL ==
    \/ \E fresh \in BOOLEAN, deleted \in BOOLEAN : SUWelcome(FlipConn, fresh, deleted)
    \/ SUAdopt(FlipConn)
    \/ \E deleted \in BOOLEAN : SUPurge(FlipConn, deleted)
    \/ SUCreate(FlipConn)
    \/ SUReconnect(FlipConn)
    \/ SUClosed(FlipConn)
    \/ \E u \in Volatile, deleted \in BOOLEAN, refused \in BOOLEAN :
          SUFlip(FlipConn, u, deleted, refused)

----------------------------------------------------------------------------
(* The desired-recording flag: the roster's downloads_enabled and the
   recorder pool's configured_streamers, as the operator's requests and the
   monitor loop change them. Each request is one step; a recording the
   monitor starts is entered in active_downloads at once. *)

ENChannels == {"alice", "bob"}

(* The thread of a job in these runs. *)
ENThread == 1

EnabledInRoster == {c \in DOMAIN downloads_enabled : downloads_enabled[c]}

NotEN == <<now, download_cooldowns, download_lock, workers, dtask, outcome,
          tmvars, esvars, pvars, svvars, rvars, nvars, rcvars, tivars, cnvars,
          suvars,
          puvars,
          rsvars>>

IdleEN == downloads_enabled = EmptyDict

(* DownloadService.start 40-46 with _load_configured_streamers 48-61: the
   pool's set is read from the roster. *)
InitEN ==
    /\ \E R \in SUBSET ENChannels : downloads_enabled \in [R -> BOOLEAN]
    /\ configured_streamers = EnabledInRoster
    /\ isLive \in [ENChannels -> BOOLEAN]
    /\ \A c \in ENChannels : c \notin DOMAIN downloads_enabled => ~isLive[c]
    /\ active_downloads = EmptyDict

(* enable_downloads 550-573: the pool's set, and the job of a channel that
   is disabled. *)
Configured(set, c, enabled) == IF enabled THEN set \cup {c} ELSE set \ {c}

JobsAfterEnable(jobs, c, enabled) == IF enabled THEN jobs ELSE DictDel(jobs, c)

(* handlers.toggle_downloads 960-983: the pool is told first; the roster is
   written only when the channel is on it, otherwise the answer is 404. *)
ToggleDownloads(c, enabled) ==
    /\ configured_streamers' = Configured(configured_streamers, c, enabled)
    /\ active_downloads' = JobsAfterEnable(active_downloads, c, enabled)
    /\ downloads_enabled' = IF c \in DOMAIN downloads_enabled
                            THEN [downloads_enabled EXCEPT ![c] = enabled]
                            ELSE downloads_enabled
    /\ UNCHANGED <<isLive, NotEN>>

(* handlers.update_streamer_settings 643-676: 404 for a channel that is not
   on the roster; otherwise the pool is told and the roster written. *)
UpdateSettings(c, enabled) ==
    /\ c \in DOMAIN downloads_enabled
    /\ configured_streamers' = Configured(configured_streamers, c, enabled)
    /\ active_downloads' = JobsAfterEnable(active_downloads, c, enabled)
    /\ downloads_enabled' = [downloads_enabled EXCEPT ![c] = enabled]
    /\ UNCHANGED <<isLive, NotEN>>

(* handlers.update_streamers 142-229 without the channel: its job is stopped
   and its roster entry dropped. *)
RemoveChannel(c) ==
    /\ c \in DOMAIN downloads_enabled
    /\ downloads_enabled' = DictDel(downloads_enabled, c)
    /\ active_downloads' = DictDel(active_downloads, c)
    /\ isLive' = [isLive EXCEPT ![c] = FALSE]
    /\ UNCHANGED <<configured_streamers, NotEN>>

(* handlers.update_streamers 201-229 with a new channel: its entry starts
   with downloads_enabled False and the live flag just fetched. *)
AddChannel(c, live) ==
    /\ c \notin DOMAIN downloads_enabled
    /\ downloads_enabled' = DictSet(downloads_enabled, c, FALSE)
    /\ isLive' = [isLive EXCEPT ![c] = live]
    /\ UNCHANGED <<configured_streamers, active_downloads, NotEN>>

(* _check_downloads 108-113: a roster channel of the pool's set that is live
   and has no job is started. *)
MonitorPassStart(c) ==
    /\ c \in DOMAIN downloads_enabled
    /\ c \in configured_streamers
    /\ isLive[c]
    /\ c \notin DOMAIN active_downloads
    /\ active_downloads' = DictSet(active_downloads, c, ENThread)
    /\ UNCHANGED <<isLive, configured_streamers, downloads_enabled, NotEN>>

(* _check_downloads 114-117: a roster channel outside the pool's set that
   has a job is stopped. *)
MonitorPassStop(c) ==
    /\ c \in DOMAIN downloads_enabled
    /\ c \notin configured_streamers
    /\ c \in DOMAIN active_downloads
    /\ active_downloads' = DictDel(active_downloads, c)
    /\ UNCHANGED <<isLive, configured_streamers, downloads_enabled, NotEN>>

(* handlers.start_download 868-909: the operator starts a recording of a
   live roster channel by hand. *)
ManualStart(c) ==
    /\ c \in DOMAIN downloads_enabled
    /\ isLive[c]
    /\ c \notin DOMAIN active_downloads
    /\ active_downloads' = DictSet(active_downloads, c, ENThread)
    /\ UNCHANGED <<isLive, configured_streamers, downloads_enabled, NotEN>>

(* A notification or the poll-tick writes the live flag of a roster
   channel. *)
LiveFlag(c, live) ==
    /\ c \in DOMAIN downloads_enabled
    /\ isLive[c] # live
    /\ isLive' = [isLive EXCEPT ![c] = live]
    /\ UNCHANGED <<configured_streamers, active_downloads, downloads_enabled,
                   NotEN>>

NextEN ==
    \/ \E c \in ENChannels, enabled \in BOOLEAN : ToggleDownloads(c, enabled)
    \/ \E c \in ENChannels, enabled \in BOOLEAN : UpdateSettings(c, enabled)
    \/ \E c \in ENChannels : RemoveChannel(c)
    \/ \E c \in ENChannels, live \in BOOLEAN : AddChannel(c, live)
    \/ \E c \in ENChannels : MonitorPassStart(c)
    \/ \E c \in ENChannels : MonitorPassStop(c)
    \/ \E c \in ENChannels : ManualStart(c)
    \/ \E c \in ENChannels, live \in BOOLEAN : LiveFlag(c, live)

----------------------------------------------------------------------------
(* EventSubService.pending_unsubscribes: the calls of
   remove_streamer_subscription made by the connection tasks (clean-up after
   the welcome 339-360, flip of a notification 1069, 1116) and by the task
   handlers.update_streamers creates (handlers.py 171-174), with the
   operations that cancel connection tasks: stop() 110-133, start() 59-108
   and _reconnect_websockets 1147-1161. A connection task is named by its
   number, and so is the session it is welcomed with. A step is the code
   between two awaits; a cancellation is delivered when the cancelled task
   would next run. *)

PUConns == {1, 2}

PUUsers == {1, 2}

NoCall == [pc |-> "idle", user |-> NoSession]

PUDown == [pc |-> "none", user |-> NoSession, cancel |-> FALSE]

IdlePU ==
    /\ pending_unsubscribes = {}
    /\ connection_tasks = {}
    /\ putask = [t \in PUConns |-> PUDown]
    /\ web_call = NoCall
    /\ cancelled_in_remove = {}

NotPU == <<now, isLive, dlvars, tmvars, streamers, ws_status, cpc,
          connection_session_id, batch, active_subscriptions,
          subscriptions_by_session, reconnect_urls, sessions_issued, wtask,
          pvars, svvars, rvars, nvars, rcvars, tivars, cnvars, suvars, envars,
          rsvars>>

(* start() 71-81 and _create_connections 203-219: the tables are empty and
   every connection task dials. *)
InitPU ==
    /\ pending_unsubscribes = {}
    /\ connection_tasks = PUConns
    /\ putask = [t \in PUConns |-> [pc |-> "dial", user |-> NoSession, cancel |-> FALSE]]
    /\ web_call = NoCall
    /\ cancelled_in_remove = {}
    /\ session_ids = <<>>

(* _create_connections 203-219, _check_connections 242-244: a task is
   created for every connection that has none and is put on the list. *)
Spawned(tasks) ==
    [t \in PUConns |->
        IF tasks[t].pc = "none"
        THEN [pc |-> "dial", user |-> NoSession, cancel |-> FALSE]
        ELSE tasks[t]]

(* "task.cancel()" for every task of the list, 123-125 and 1148-1150. *)
CancelListed(tasks) ==
    [t \in PUConns |->
        IF t \in connection_tasks /\ tasks[t].pc # "none"
        THEN [tasks[t] EXCEPT !.cancel = TRUE]
        ELSE tasks[t]]

(* stop() 131: the set the service has after stop(). *)
PendingAfterStop_Kept(ids) == ids

PendingAfterStop(ids) == {}

(* remove_streamer_subscription 1388-1398, up to the first await: the call
   is skipped when the id is pending; the id is added, and taken out at
   once when no subscription is recorded for it. *)
Skipped(u) == u \in pending_unsubscribes

(* Every exit of remove_streamer_subscription that follows an await
   (1428, 1461, 1504, 1513, 1521, 1527-1528): "remove" raises KeyError for
   an id that is not in the set, and the handler at 1523-1529 guards it. *)
PendingAfterExit(ids, u) == ids \ {u}

(* _handle_connection 289-336: the socket opens and the welcome names the
   session, which is appended to session_ids. *)
PUWelcome(t) ==
    /\ putask[t].pc = "dial"
    /\ ~putask[t].cancel
    /\ putask' = [putask EXCEPT ![t].pc = "listening"]
    /\ session_ids' = IF t \in Range(session_ids) THEN session_ids
                      ELSE Append(session_ids, t)
    /\ UNCHANGED <<pending_unsubscribes, connection_tasks, web_call,
                   cancelled_in_remove, NotPU>>

(* A connection task calls remove_streamer_subscription(u): lines 360, 585,
   1069, 1116. *)
PURemove(t, u, tracked) ==
    /\ putask[t].pc = "listening"
    /\ ~putask[t].cancel
    /\ IF Skipped(u) \/ ~tracked
       THEN UNCHANGED <<putask, pending_unsubscribes>>
       ELSE /\ pending_unsubscribes' = pending_unsubscribes \cup {u}
            /\ putask' = [putask EXCEPT ![t].pc = "remove", ![t].user = u]
    /\ UNCHANGED <<connection_tasks, session_ids, web_call,
                   cancelled_in_remove, NotPU>>

(* The call of a connection task returns: Twitch answered, or the request
   raised an Exception. *)
PURemoveExit(t) ==
    /\ putask[t].pc = "remove"
    /\ ~putask[t].cancel
    /\ pending_unsubscribes' = PendingAfterExit(pending_unsubscribes, putask[t].user)
    /\ putask' = [putask EXCEPT ![t].pc = "listening", ![t].user = NoSession]
    /\ UNCHANGED <<connection_tasks, session_ids, web_call,
                   cancelled_in_remove, NotPU>>

(* The cancellation reaches the task at the await it is suspended on:
   CancelledError is not an Exception, so no handler of
   remove_streamer_subscription runs and the task ends. *)
PUCancelled(t) ==
    /\ putask[t].pc # "none"
    /\ putask[t].cancel
    /\ cancelled_in_remove' = IF putask[t].pc = "remove"
                              THEN cancelled_in_remove \cup {putask[t].user}
                              ELSE cancelled_in_remove
    /\ putask' = [putask EXCEPT ![t] = PUDown]
    /\ UNCHANGED <<pending_unsubscribes, connection_tasks, session_ids,
                   web_call, NotPU>>

(* _handle_connection 490-562: the socket of a welcomed task closes; the
   task forgets its session and dials again. *)
PUClosed(t) ==
    /\ putask[t].pc = "listening"
    /\ ~putask[t].cancel
    /\ session_ids' = SelectSeq(session_ids, LAMBDA x : x # t)
    /\ putask' = [putask EXCEPT ![t].pc = "dial"]
    /\ UNCHANGED <<pending_unsubscribes, connection_tasks, web_call,
                   cancelled_in_remove, NotPU>>

(* handlers.update_streamers 171-174: a task of its own calls
   remove_streamer_subscription for a removed channel; nothing cancels it. *)
WebRemoveCall(u, tracked) ==
    /\ web_call.pc = "idle"
    /\ IF Skipped(u) \/ ~tracked
       THEN UNCHANGED <<web_call, pending_unsubscribes>>
       ELSE /\ pending_unsubscribes' = pending_unsubscribes \cup {u}
            /\ web_call' = [pc |-> "remove", user |-> u]
    /\ UNCHANGED <<putask, connection_tasks, session_ids, cancelled_in_remove,
                   NotPU>>

WebRemoveExit ==
    /\ web_call.pc = "remove"
    /\ pending_unsubscribes' = PendingAfterExit(pending_unsubscribes, web_call.user)
    /\ web_call' = NoCall
    /\ UNCHANGED <<putask, connection_tasks, session_ids, cancelled_in_remove,
                   NotPU>>

(* stop() 119-132, after _unsubscribe_all: the listed tasks are cancelled,
   the lists emptied and pending_unsubscribes replaced by a new set. *)
PUStop ==
    /\ putask' = CancelListed(putask)
    /\ connection_tasks' = {}
    /\ session_ids' = <<>>
    /\ pending_unsubscribes' = PendingAfterStop(pending_unsubscribes)
    /\ UNCHANGED <<web_call, cancelled_in_remove, NotPU>>

(* start() 71-81 with _create_connections: the lists and the set are
   replaced, nothing is cancelled, and the connections that have no task
   get one. *)
PUStart ==
    /\ putask' = Spawned(putask)
    /\ connection_tasks' = {t \in PUConns : putask[t].pc = "none"}
    /\ session_ids' = <<>>
    /\ pending_unsubscribes' = {}
    /\ UNCHANGED <<web_call, cancelled_in_remove, NotPU>>

(* add_streamer_subscription 1288-1291 with _reconnect_websockets
   1147-1178: when no session is recorded, the listed tasks are cancelled,
   the lists emptied and connections created; pending_unsubscribes is left
   as it is. *)
PUReconnect ==
    /\ session_ids = <<>>
    /\ putask' = Spawned(CancelListed(putask))
    /\ connection_tasks' = {t \in PUConns : putask[t].pc = "none"}
    /\ UNCHANGED <<session_ids, pending_unsubscribes, web_call,
                   cancelled_in_remove, NotPU>>

NextPU ==
    \/ \E t \in PUConns : PUWelcome(t)
    \/ \E t \in PUConns, u \in PUUsers, tracked \in BOOLEAN : PURemove(t, u, tracked)
    \/ \E t \in PUConns : PURemoveExit(t)
    \/ \E t \in PUConns : PUCancelled(t)
    \/ \E t \in PUConns : PUClosed(t)
    \/ \E u \in PUUsers, tracked \in BOOLEAN : WebRemoveCall(u, tracked)
    \/ WebRemoveExit
    \/ PUStop
    \/ PUStart
    \/ PUReconnect

----------------------------------------------------------------------------
(* Full restarts of the push service: EventSubService.stop() 110-133
   followed by start() 59-108, as the token-refresh callback
   (background_service.py 255-284, which sleeps between the two),
   restart_eventsub (287-319, which awaits the token between the two) and
   handlers.eventsub_reconnect (394-407, which calls one right after the
   other) run them, with the connection-manager tasks (_manage_connections
   135-174) and the connection tasks they create (_create_connections
   176-219). The roster fills RosterBatches batches. A cancelled task ends
   at the await it is suspended on, which is modelled in the step that
   cancels it. Each caller restarts the service once. *)

RSCallers == {"callback", "restart_eventsub", "eventsub_reconnect"}

RosterBatches == 2

(* eventsub_service.py 42. *)
max_connections == 3

NoManager == 0

(* One manager task from the first start() and one from each restart. *)
ManagerIds == 1 .. (1 + Cardinality(RSCallers))

(* _create_connections 203-219: one task per batch, at most
   max_connections, numbered from created + 1, with the batch's index. *)
NewTasks(created) ==
    {[id |-> created + i, idx |-> i - 1] : i \in 1 .. MinOf({RosterBatches, max_connections})}

IdleRS ==
    /\ service_running = FALSE
    /\ connection_manager_task = NoManager
    /\ manager_tasks = {}
    /\ managers_started = 0
    /\ alive_tasks = {}
    /\ ws_list = {}
    /\ tasks_created = 0
    /\ restart_pc = [r \in RSCallers |-> "idle"]

NotRS == <<now, isLive, dlvars, tmvars, esvars, pvars, svvars, rvars, nvars,
          rcvars, tivars, cnvars, suvars, envars, puvars>>

(* StreamMonitorService.start 81: the service was started once; its
   manager task has not run yet. *)
InitRS ==
    /\ service_running = TRUE
    /\ connection_manager_task = 1
    /\ manager_tasks = {[id |-> 1, pc |-> "new"]}
    /\ managers_started = 1
    /\ alive_tasks = {}
    /\ ws_list = {}
    /\ tasks_created = 0
    /\ restart_pc = [r \in RSCallers |-> "idle"]

(* stop() 119-121: the manager task the attribute names is cancelled. *)
ManagersAfterStop(mgrs, kept) == {m \in mgrs : m.id # kept}

(* stop() 110-116: running becomes False and _unsubscribe_all is awaited. *)
StopBegin(r) ==
    /\ restart_pc[r] = "idle"
    /\ service_running' = FALSE
    /\ restart_pc' = [restart_pc EXCEPT ![r] = "unsubscribing"]
    /\ UNCHANGED <<connection_manager_task, manager_tasks, managers_started,
                   alive_tasks, ws_list, tasks_created, NotRS>>

(* stop() 118-132: the manager task of the attribute and the listed
   connection tasks are cancelled, and the lists emptied. *)
Stopped ==
    /\ manager_tasks' = ManagersAfterStop(manager_tasks, connection_manager_task)
    /\ alive_tasks' = {t \in alive_tasks : t.id \notin ws_list}
    /\ ws_list' = {}

(* start() 71-108 with a token: running becomes True, the lists are
   emptied, and a manager task is created and kept in the attribute. *)
Started ==
    /\ service_running' = TRUE
    /\ managers_started' = managers_started + 1
    /\ connection_manager_task' = managers_started + 1
    /\ ws_list' = {}

(* The callback and restart_eventsub: stop() returns and the caller is
   suspended (sleep 2 s, or the token manager). *)
StopEnd(r) ==
    /\ r \in {"callback", "restart_eventsub"}
    /\ restart_pc[r] = "unsubscribing"
    /\ Stopped
    /\ restart_pc' = [restart_pc EXCEPT ![r] = "stopped"]
    /\ UNCHANGED <<service_running, connection_manager_task, managers_started,
                   tasks_created, NotRS>>

(* The callback and restart_eventsub: start(). *)
StartService(r) ==
    /\ restart_pc[r] = "stopped"
    /\ Started
    /\ manager_tasks' = manager_tasks \cup {[id |-> managers_started + 1, pc |-> "new"]}
    /\ restart_pc' = [restart_pc EXCEPT ![r] = "done"]
    /\ UNCHANGED <<alive_tasks, tasks_created, NotRS>>

(* handlers.eventsub_reconnect 401-402: stop() returns and start() runs in
   the same step. *)
Reconnected ==
    /\ restart_pc["eventsub_reconnect"] = "unsubscribing"
    /\ service_running' = TRUE
    /\ managers_started' = managers_started + 1
    /\ connection_manager_task' = managers_started + 1
    /\ manager_tasks' = ManagersAfterStop(manager_tasks, connection_manager_task)
                           \cup {[id |-> managers_started + 1, pc |-> "new"]}
    /\ alive_tasks' = {t \in alive_tasks : t.id \notin ws_list}
    /\ ws_list' = {}
    /\ restart_pc' = [restart_pc EXCEPT !["eventsub_reconnect"] = "done"]
    /\ UNCHANGED <<tasks_created, NotRS>>

(* _manage_connections 137-174, one round of a manager task: it ends when
   running is False; on its first round, and whenever no connection is
   listed, it creates the connections; then it sleeps 60 s. *)
ManagerRound(m) ==
    /\ m \in manager_tasks
    /\ IF ~service_running
       THEN /\ manager_tasks' = manager_tasks \ {m}
            /\ UNCHANGED <<alive_tasks, ws_list, tasks_created>>
       ELSE /\ manager_tasks' = (manager_tasks \ {m}) \cup {[m EXCEPT !.pc = "sleep"]}
            /\ IF m.pc = "new" \/ ws_list = {}
               THEN /\ alive_tasks' = alive_tasks \cup NewTasks(tasks_created)
                    /\ ws_list' = ws_list \cup {t.id : t \in NewTasks(tasks_created)}
                    /\ tasks_created' = tasks_created + Cardinality(NewTasks(tasks_created))
               ELSE UNCHANGED <<alive_tasks, ws_list, tasks_created>>
    /\ m.pc = "sleep" => (~service_running \/ ws_list = {})
    /\ UNCHANGED <<service_running, connection_manager_task, managers_started,
                   restart_pc, NotRS>>

NextRS ==
    \/ \E r \in RSCallers : StopBegin(r)
    \/ \E r \in RSCallers : StopEnd(r)
    \/ \E r \in RSCallers : StartService(r)
    \/ Reconnected
    \/ \E id \in ManagerIds, pc \in {"new", "sleep"} :
          ManagerRound([id |-> id, pc |-> pc])

----------------------------------------------------------------------------
(* The specifications *)

InitSpecDL == InitDL /\ IdleTM /\ IdleES /\ IdleFS /\ IdleSV /\ IdleSR /\ IdleFN /\ IdleRC /\ IdleTI /\ IdleCN /\ IdleSU /\ IdleEN /\ IdlePU /\ IdleRS

SpecDL == InitSpecDL /\ [][NextDL]_vars

(* The scheduling of the recorder pool: _download_monitor_loop 63-78 runs
   _check_downloads every 10 s, each pass taking the zombie jobs first and
   the channels to start next; asyncio.Lock hands the lock to a waiter once
   it is free; every awaited sleep, query and broadcast ends. The last
   conjunct is about Twitch: a channel that is queried again and again is
   confirmed live, with a title, again and again. *)
FairDL ==
    /\ \A c \in Channels : SF_vars(MonitorZombie(c))
    /\ \A c \in Channels : SF_vars(MonitorStart(c))
    /\ SF_vars(StartCheck("monitor"))
    /\ \A t \in DLTasks :
          WF_vars(\E res \in {"live", "offline", "fail", "noid", "raised"},
                     ok \in BOOLEAN : StartLive(t, res, ok))
    /\ \A t \in DLTasks : WF_vars(StartReturn(t))
    /\ WF_vars(StopFinish("monitor"))
    /\ SF_vars(StartLive("monitor", "live", TRUE))

SpecDF == InitSpecDL /\ [][NextDL]_vars /\ FairDL

InitSpecTM == InitTM /\ isLive = [c \in Channels |-> FALSE] /\ IdleDL /\ IdleES /\ IdleFS /\ IdleSV /\ IdleSR /\ IdleFN /\ IdleRC /\ IdleTI /\ IdleCN /\ IdleSU /\ IdleEN /\ IdlePU /\ IdleRS

SpecTM == InitSpecTM /\ [][NextTM]_vars

(* The steps of the token manager that no caller has to ask for: the clock,
   the timer task and whatever a refresh under way goes on to do. In SpecTT
   these are taken whenever they stay possible; a caller may ask for a token
   but never has to. *)
NextTT ==
    \/ TickTM
    \/ TimerFire
    \/ \E t \in TMTasks : Acquire(t)
    \/ \E t \in TMTasks, ok \in BOOLEAN, e \in ExpiresIn : HttpResponse(t, ok, e)
    \/ \E t \in TMTasks : Cancelled(t)
    \/ \E t \in TMTasks, valid \in BOOLEAN : ObsValidate(t, valid)
    \/ \E t \in TMTasks : ObsStop(t)
    \/ \E t \in TMTasks : ObsInstall(t)
    \/ \E t \in TMTasks : ObsStart(t)
    \/ ConnUp

SpecTT == InitSpecTM /\ [][NextTM]_vars /\ WF_vars(NextTT)

InitSpecES == InitES /\ IdleDL /\ IdleTM /\ IdleFS /\ IdleSV /\ IdleSR /\ IdleFN /\ IdleRC /\ IdleTI /\ IdleCN /\ IdleSU /\ IdleEN /\ IdlePU /\ IdleRS

SpecES == InitSpecES /\ [][NextES]_vars

InitSpecFS == InitFS /\ IdleDL /\ IdleTM /\ IdleES /\ IdleSV /\ IdleSR /\ IdleFN /\ IdleRC /\ IdleTI /\ IdleCN /\ IdleSU /\ IdleEN /\ IdlePU /\ IdleRS

SpecFS == InitSpecFS /\ [][NextFS]_vars

InitSpecSV == InitSV /\ IdleDL /\ IdleTM /\ IdleFS /\ IdleSR /\ IdleFN /\ IdleRC /\ IdleTI /\ IdleCN /\ IdleSU /\ IdleEN /\ IdlePU /\ IdleRS

SpecSV == InitSpecSV /\ [][NextSV]_vars

InitSpecSR == InitSR /\ IdleDL /\ IdleTM /\ IdleFS /\ IdleSV /\ IdleFN /\ IdleRC /\ IdleTI /\ IdleCN /\ IdleSU /\ IdleEN /\ IdlePU /\ IdleRS

SpecSR == InitSpecSR /\ [][NextSR]_vars

InitSpecFN == InitFN /\ IdleDL /\ IdleTM /\ IdleES /\ IdleFS /\ IdleSV /\ IdleSR /\ IdleRC /\ IdleTI /\ IdleCN /\ IdleSU /\ IdleEN /\ IdlePU /\ IdleRS

SpecFN == InitSpecFN /\ [][NextFN]_vars

InitSpecRC == InitRC /\ IdleDL /\ IdleTM /\ IdleES /\ IdleFS /\ IdleSV /\ IdleSR /\ IdleFN /\ IdleTI /\ IdleCN /\ IdleSU /\ IdleEN /\ IdlePU /\ IdleRS

SpecRC == InitSpecRC /\ [][NextRC]_vars

InitSpecTI == InitTI /\ now = 0 /\ isLive = [c \in Channels |-> FALSE] /\ IdleDL /\ IdleTM /\ IdleES /\ IdleFS /\ IdleSV /\ IdleSR /\ IdleFN /\ IdleRC /\ IdleCN /\ IdleSU /\ IdleEN /\ IdlePU /\ IdleRS

SpecTI == InitSpecTI /\ [][NextTI]_vars

InitSpecCN == InitCN /\ now = 0 /\ isLive = [c \in Channels |-> FALSE] /\ IdleDL /\ IdleTM /\ IdleES /\ IdleFS /\ IdleSV /\ IdleSR /\ IdleFN /\ IdleRC /\ IdleTI /\ IdleSU /\ IdleEN /\ IdlePU /\ IdleRS

SpecCN == InitSpecCN /\ [][NextCN]_vars

InitSpecSU == InitSU /\ now = 0 /\ isLive = [c \in Channels |-> FALSE] /\ streamers = {} /\ ws_status = "connecting" /\ cpc = "connect" /\ connection_session_id = NoSession /\ batch = EmptyDict /\ reconnect_urls = FALSE /\ wtask = IdleWeb /\ IdleDL /\ IdleTM /\ IdleFS /\ IdleSV /\ IdleSR /\ IdleFN /\ IdleRC /\ IdleTI /\ IdleCN /\ IdleEN /\ IdlePU /\ IdleRS

SpecSU == InitSpecSU /\ [][NextSU]_vars

SpecFL == InitSpecSU /\ [][NextFL]_vars

InitSpecEN == InitEN /\ now = 0 /\ download_cooldowns = EmptyDict /\ download_lock = "free" /\ workers = [w \in WorkerIds |-> UnusedWorker] /\ dtask = [t \in DLTasks |-> [pc |-> "idle", chan |-> NoChan]] /\ outcome = [task |-> "none", how |-> "none"] /\ IdleTM /\ IdleES /\ IdleFS /\ IdleSV /\ IdleSR /\ IdleFN /\ IdleRC /\ IdleTI /\ IdleCN /\ IdleSU /\ IdlePU /\ IdleRS

SpecEN == InitSpecEN /\ [][NextEN]_vars

InitSpecPU == InitPU /\ now = 0 /\ isLive = [c \in Channels |-> FALSE] /\ streamers = {} /\ ws_status = "connecting" /\ cpc = "connect" /\ connection_session_id = NoSession /\ batch = EmptyDict /\ active_subscriptions = EmptyDict /\ subscriptions_by_session = EmptyDict /\ reconnect_urls = FALSE /\ sessions_issued = 0 /\ wtask = IdleWeb /\ IdleDL /\ IdleTM /\ IdleFS /\ IdleSV /\ IdleSR /\ IdleFN /\ IdleRC /\ IdleTI /\ IdleCN /\ IdleSU /\ IdleEN /\ IdleRS

SpecPU == InitSpecPU /\ [][NextPU]_vars

InitSpecRS == InitRS /\ now = 0 /\ isLive = [c \in Channels |-> FALSE] /\ IdleDL /\ IdleTM /\ IdleES /\ IdleFS /\ IdleSV /\ IdleSR /\ IdleFN /\ IdleRC /\ IdleTI /\ IdleCN /\ IdleSU /\ IdleEN /\ IdlePU

SpecRS == InitSpecRS /\ [][NextRS]_vars

----------------------------------------------------------------------------
(* Properties of the recorder pool (SpecDL) *)

(* C1: at most one Recording Job per channel. A worker is launched only by
   the task holding the pool mutex, only for a channel that has no job, and
   the launch records exactly that worker as the channel's job; so of the
   start requests that race for one channel exactly one launches a worker.
   At most one task is past the mutex at any time. *)
C1_OneWorkerPerStart ==
    [][ /\ Cardinality({t \in DLTasks : dtask[t].pc \in {"live", "notify"}}) <= 1
        /\ Cardinality({t \in DLTasks : dtask'[t].pc \in {"live", "notify"}}) <= 1
        /\ \A w \in WorkerIds :
             (workers[w].st = "unused" /\ workers'[w].st = "running") =>
                LET c == workers'[w].chan IN
                  /\ c \notin DOMAIN active_downloads
                  /\ c \in DOMAIN active_downloads'
                  /\ active_downloads'[c] = w
                  /\ download_lock \in DLTasks
                  /\ dtask[download_lock].chan = c
                  /\ \A v \in WorkerIds \ {w} : workers'[v] = workers[v]
      ]_vars

(* Two start requests met on one channel: the later one was turned away as a
   duplicate, and one worker in all was launched. *)
C1_Witness ==
    /\ outcome.how = "duplicate"
    /\ Cardinality({w \in WorkerIds : workers[w].st # "unused"}) = 1
    /\ \E c \in DOMAIN active_downloads : workers[active_downloads[c]].st = "running"

(* C3: a start request whose checks run while the channel's cooldown has not
   expired returns without any effect, whichever task issued it; and handling
   a worker's completion installs the cooldown now + 30 s for its channel. *)
C3_CooldownNoOp ==
    [][ /\ \A t \in DLTasks :
             ( /\ dtask[t].pc = "lock"
               /\ dtask'[t].pc # "lock"
               /\ dtask[t].chan \in DOMAIN download_cooldowns
               /\ now < download_cooldowns[dtask[t].chan] )
             => /\ dtask'[t].pc = "idle"
                /\ UNCHANGED <<active_downloads, download_cooldowns, workers,
                               download_lock, isLive>>
        /\ \A w \in WorkerIds :
             (workers[w].st = "posted" /\ workers'[w].st # "posted")
             => /\ workers[w].chan \in DOMAIN download_cooldowns'
                /\ download_cooldowns'[workers[w].chan] = now + 30
      ]_vars

(* A completion was handled, and a start request was then turned away by the
   cooldown it installed. *)
C3_Witness ==
    /\ outcome.how = "cooldown"
    /\ \E c \in DOMAIN download_cooldowns :
         /\ now < download_cooldowns[c]
         /\ c \notin DOMAIN active_downloads

----------------------------------------------------------------------------
(* Properties of the token manager (SpecTM) *)

(* C6: whenever no refresh is in progress and the current token was accepted
   by the observer's validation, the push service has been stopped, given
   that token and started again: it is running with the current token. *)
C6_RestartedWithNewToken ==
    (refresh_lock = "free" /\ validated = tokens.access_token)
        => (es_running /\ es_token = tokens.access_token)

(* C7: whenever no refresh is in progress, the observer has run to its end
   once for every successful refresh. *)
C7_ObserverRunsToCompletion ==
    refresh_lock = "free" => completed = tokens.access_token

(* C8: concurrent refresh attempts coalesce: no task sends a refresh request
   for a token that a concurrent attempt has already replaced. *)
C8_Coalesced ==
    \A t \in TMTasks : ttask[t].pc = "http" => ttask[t].seen = tokens.access_token

(* C9 (as stated): after a refresh event any get() without force returns the
   new token at once, refreshed? = false, triggering no refresh. *)
C9_NextGetServed ==
    (lastget.task # "none" /\ ~lastget.force /\ lastget.held >= 1)
        => (~lastget.trigger /\ lastget.token = lastget.held)

(* C9 (amended): after a refresh event a get() without force, issued while
   the new token's expiry is not earlier than now + buffer, returns the new
   token at once, refreshed? = false, triggering no refresh. *)
C9_FreshGetServed ==
    ( /\ lastget.task # "none"
      /\ ~lastget.force
      /\ lastget.held >= 1
      /\ lastget.cmp # "earlier" )
        => (~lastget.trigger /\ lastget.token = lastget.held)

(* A refreshed token was served by a get() that triggered nothing. *)
C9_Witness ==
    /\ lastget.task # "none"
    /\ ~lastget.force
    /\ lastget.held >= 1
    /\ lastget.cmp # "earlier"
    /\ ~lastget.trigger
    /\ lastget.token = tokens.access_token

----------------------------------------------------------------------------
(* Properties of the push subscription manager (SpecES) *)

(* C2: whenever the connection is in its message loop and no roster change
   is being carried out, every roster channel has a subscription in the table
   and its event kind is the complement of the channel's live flag. *)
C2_ComplementSubscription ==
    (cpc = "loop" /\ wtask.pc = "idle") =>
        \A u \in streamers :
            /\ u \in DOMAIN active_subscriptions
            /\ active_subscriptions[u].event_type =
                 (IF isLive[u] THEN "stream.offline" ELSE "stream.online")

(* C4: every subscription names the session of a connection whose status is
   "connected", and so does every known session id: a session that left
   CONNECTED is known no more and owns no subscription. *)
C4_OwnerConnected ==
    /\ \A u \in DOMAIN active_subscriptions :
          /\ active_subscriptions[u].session_id = connection_session_id
          /\ ws_status = "connected"
    /\ \A i \in 1 .. Len(session_ids) :
          /\ session_ids[i] = connection_session_id
          /\ ws_status = "connected"

(* C5: no session carries more than 8 subscriptions. *)
C5_SessionCapacity ==
    \A sid \in DOMAIN subscriptions_by_session :
        Cardinality(DOMAIN subscriptions_by_session[sid]) <= 8

----------------------------------------------------------------------------
(* Properties of the persistence of bundle and roster (SpecFS) *)

(* C11: when a refresh attempt has failed, the bundle in memory and the token
   file are what they were before the attempt, no refresh event was emitted,
   and get() returned the previous token with refreshed? = false. *)
C11_FailedRefreshLeavesBundle ==
    attempt.st = "failed" =>
        /\ attempt.mem1 = attempt.mem0
        /\ attempt.file1 = attempt.file0
        /\ ~attempt.emitted
        /\ attempt.ret = [token |-> attempt.mem0, refreshed |-> FALSE]

(* C12: the token file always holds a complete bundle: whatever a reader of
   the file has seen, and whatever a crash at any step leaves on disk, is
   complete, never empty and never a part of a bundle. *)
C12_TokenFileComplete ==
    /\ files[TOKEN_FILE].st = "full"
    /\ observed.name = TOKEN_FILE => observed.content.st = "full"

(* C13: at every step of update_monitored_streamers the roster file holds a
   complete roster, the one before the call or the one it was called with,
   and so does whatever a reader has seen of it. *)
C13_RosterFileComplete ==
    /\ files[STREAMERS_FILE].st = "full"
    /\ fw.who = "roster" => files[STREAMERS_FILE].v \in {fw.v - 1, fw.v}
    /\ observed.name = STREAMERS_FILE => observed.content.st = "full"

(* The process died between the write of the temporary file and the rename:
   the temporary file is complete and newer than the roster file, which holds
   the roster of before and has been read so. *)
C13_Witness ==
    /\ fw = NoWrite
    /\ files[TEMP_FILE].st = "full"
    /\ files[STREAMERS_FILE] = Full(files[TEMP_FILE].v - 1)
    /\ attempt.st = "crashed"
    /\ observed = [name |-> STREAMERS_FILE, content |-> files[STREAMERS_FILE]]

----------------------------------------------------------------------------
(* Properties of the supervise-tick (SpecSV) *)

(* C14: once a whole supervise-tick has run after a channel's subscription
   was revoked, and the connection is in its message loop, the channel has a
   subscription again, of the kind that complements its live flag. *)
C14_RevokedRepairedInTick ==
    (revoked.st = "ticked" /\ revoked.user \in streamers /\ cpc = "loop") =>
        /\ revoked.user \in DOMAIN active_subscriptions
        /\ active_subscriptions[revoked.user].event_type =
              EventTypeFor(isLive[revoked.user])

(* C15: two restarts of the push service triggered by the supervisor are at
   least 3600 s apart, and the time of the latest one is the one on record in
   the repair registry. *)
C15_OneRestartPerHour ==
    /\ Len(restarts) = 2 => restarts[2] - restarts[1] >= 3600
    /\ restarts # <<>> =>
          /\ "eventsub" \in DOMAIN recent_recoveries
          /\ recent_recoveries["eventsub"] = restarts[Len(restarts)]

----------------------------------------------------------------------------
(* Properties of set-roster (SpecSR) *)

(* C16: a request that sends the roster the request before it sent changes
   nothing: no channel is added to or taken off the roster, no live flag is
   written, no task is created (so no subscription is added or removed and
   no job stopped), and tables and jobs stay as they are. *)
C16_SetRosterIdempotent ==
    [][ ( /\ requests.n > 0
          /\ requests'.n = requests.n + 1
          /\ requests'.last = requests.last )
        => UNCHANGED <<streamers, noid, isLive, pending, active_subscriptions,
                       subscriptions_by_session, active_downloads>>
      ]_vars

(* The same roster was sent twice in a row; the first request added a
   channel, whose subscription task has run, and the channel has its one
   subscription. *)
C16_Witness ==
    /\ requests.n >= 2
    /\ requests.again
    /\ \E u \in Optional \ {batch_size} :
          /\ u \in streamers
          /\ u \in DOMAIN active_subscriptions
    /\ pending = EmptyBag

----------------------------------------------------------------------------
(* Properties of the naming policy (SpecFN) *)

(* C18: whenever a destination path is computed, the title part of its name
   holds none of the characters < > : " / \ | ? *, and the path names no
   file of the channel directory: the name without a suffix when that is
   free, and otherwise the suffix (N) with the smallest positive N that
   gives a free name. *)
C18_SafeUniqueName ==
    [][ named' = named + 1 =>
          LET base == filepath'.base
              n    == filepath'.counter
          IN  /\ \A i \in 1 .. Len(base) :
                    base[i] \notin {"<", ">", ":", "\"", "/", "\\", "|", "?", "*"}
              /\ filepath' \notin dir
              /\ [base |-> base, counter |-> 0] \notin dir => n = 0
              /\ [base |-> base, counter |-> 0] \in dir =>
                    /\ n > 0
                    /\ \A k \in 1 .. (n - 1) : [base |-> base, counter |-> k] \in dir
      ]_vars

(* A title with a separator was named while the name without a suffix and
   the name with suffix (2) were taken: it got the suffix (1). *)
C18_Witness ==
    /\ \E i \in 1 .. Len(stream_title) : stream_title[i] \in {"/", "\\"}
    /\ filepath.counter = 1
    /\ [base |-> filepath.base, counter |-> 0] \in dir
    /\ [base |-> filepath.base, counter |-> 2] \in dir

----------------------------------------------------------------------------
(* Properties of the recorder pool (SpecDL): cancellation *)

(* C20: when the end of a channel's stream is processed while the channel
   has a job (the monitor stops the job of a channel that the roster shows
   offline), the worker's cancellation signal is set, the worker leaves its
   read loop, and a cooldown of cooldown_duration seconds is registered for
   the channel: by the step in which the worker leaves the loop, or by the
   completion that this step posts to the loop. *)
C20_CancelledExitRegistersCooldown ==
    [][ \A w \in WorkerIds :
          ( /\ workers[w].st = "running"
            /\ workers[w].cancel
            /\ workers[w].chan \in configured_streamers
            /\ ~isLive[workers[w].chan]
            /\ dtask["monitor"] = [pc |-> "stop_sleep", chan |-> workers[w].chan]
            /\ workers'[w].st # "running" )
          => \/ workers'[w].st = "posted"
             \/ /\ workers[w].chan \in DOMAIN download_cooldowns'
                /\ download_cooldowns'[workers[w].chan] = now + cooldown_duration
      ]_vars

----------------------------------------------------------------------------
(* Properties of the recording threads (SpecRC) *)

(* C17: start-recording, stop-recording, start-recording for one channel,
   the second start more than a cooldown period after the stop, gives two
   workers that write two distinct files: no destination path is opened for
   writing by both, however late the stopped worker opens its file. *)
C17_DistinctDestinations ==
    \A a \in opened, b \in opened :
        ( /\ a.w # b.w
          /\ threads[a.w].chan = threads[b.w].chan
          /\ threads[a.w].stopped # NoTime
          /\ threads[b.w].started > threads[a.w].stopped + cooldown_duration )
        => a.filepath # b.filepath

----------------------------------------------------------------------------
(* Properties of the channel title (SpecTI) *)

(* C21: a notification that is dropped, because its broadcaster id is the
   id of no roster channel or because it is a stream.online notification of
   something other than a live stream, changes nothing: the roster entry
   (live flag, title), the subscription and its tables, and the recording
   jobs are as before. *)
C21_DroppedChangesNothing ==
    [][ ( /\ inbox # NoMsg
          /\ inbox' = NoMsg
          /\ \/ ~inbox.known
             \/ inbox.kind = "stream.online" /\ inbox.stream_type # "live" )
        => UNCHANGED <<roster_entry, event_type, active_subscriptions,
                       subscriptions_by_session, active_downloads, workers,
                       isLive, title_before, phase>>
      ]_vars

(* A rerun was notified and dropped: Twitch shows a stream while the roster
   entry is still offline and the subscription still waits for
   stream.online. *)
C21_Witness ==
    /\ last_handled.kind = "stream.online"
    /\ last_handled.known
    /\ last_handled.stream_type = "rerun"
    /\ inbox = NoMsg
    /\ channel_info.stream
    /\ ~roster_entry.isLive
    /\ event_type = "stream.online"

(* C22: after a reconnect frame has been received on a connection, the next
   dial of that connection goes to the URL the frame carried, also when the
   frame is followed by a read or close error before the dial; without a
   frame since the previous dial the dial goes to the default endpoint; and
   no reconnect URL is dialled twice. *)
C22_ReconnectUrlOnce ==
    [][ (loop_pc # "dialing" /\ loop_pc' = "dialing")
        => /\ ws_url' = IF frame_url # NoUrl THEN frame_url ELSE DefaultUrl
           /\ ws_url' \in FrameUrls => url_dials[ws_url'] = 0
      ]_vars

(* The task dials the URL of a reconnect frame after the close that followed
   the frame raised and the back-off sleep was taken. *)
C22_Witness ==
    /\ loop_pc = "dialing"
    /\ ws_url \in FrameUrls
    /\ retry_count = 1
    /\ conn_status \in {"disconnected", "error"}

(* C24: a connection is marked "failed" only when max_retries (15)
   consecutive dials have ended without a welcome message since the latest
   welcome, never earlier. *)
C24_FailedAfterFifteenDials ==
    conn_status = "failed" => failed_dials >= max_retries

(* C25: while one connection sets itself up after its welcome, a
   subscription recorded for a session of another connection that is
   connected and set up stays as it is: it is neither removed nor recorded
   under another session. *)
C25_OtherSessionUntouched ==
    [][ \A c \in ConnIds, d \in ConnIds, u \in SUStreamers :
          ( /\ c # d
            /\ ws_connections[c].pc \in {"welcome", "adopt", "purge", "create"}
            /\ ws_connections'[c].pc # ws_connections[c].pc
            /\ ws_connections[d].pc = "listening"
            /\ ws_connections'[d].pc = "listening"
            /\ u \in DOMAIN active_subscriptions
            /\ active_subscriptions[u].session_id = ws_connections[d].session_id )
          => ( /\ u \in DOMAIN active_subscriptions'
               /\ active_subscriptions'[u] = active_subscriptions[u]
               /\ [user |-> u, session_id |-> ws_connections[d].session_id]
                    \in twitch_subs' )
      ]_vars

(* C27: when Twitch answers a create request with a conflict, the
   subscription is recorded in the tables as after a fresh creation: every
   channel whose latest create request was answered 409 has a recorded
   subscription under a session whose by-session table lists it too. *)
C27_ConflictRecorded ==
    \A u \in conflicts :
       /\ u \in DOMAIN active_subscriptions
       /\ active_subscriptions[u].session_id \in DOMAIN subscriptions_by_session
       /\ u \in DOMAIN subscriptions_by_session[active_subscriptions[u].session_id]

(* C31: whenever a channel's roster entry is not live while the channel has
   a Recording Job, the job is eventually removed from the active jobs, or
   the channel is live again. *)
C31_ZombieStopped ==
    \A c \in Channels :
       (c \in DOMAIN active_downloads /\ ~isLive[c])
          ~> (c \notin DOMAIN active_downloads \/ isLive[c])

(* The monitor has stopped the job of a channel that is not live: the
   worker's cancellation Event is set and the job is gone. *)
C31_Witness ==
    /\ outcome = [task |-> "monitor", how |-> "stopped"]
    /\ \E c \in Channels, w \in WorkerIds :
          /\ ~isLive[c]
          /\ c \in configured_streamers
          /\ c \notin DOMAIN active_downloads
          /\ workers[w].chan = c
          /\ workers[w].cancel

(* C32: a channel with downloads enabled whose roster entry is live, that has
   no Recording Job and no running cooldown, and that Twitch confirms live
   with a title, eventually has a Recording Job, unless its entry stops
   being live or a cooldown starts first (or every worker of the runs is
   used up). *)
C32_LiveEventuallyRecorded ==
    \A c \in Channels :
       ( /\ c \in configured_streamers
         /\ isLive[c]
         /\ c \notin DOMAIN active_downloads
         /\ ~InCooldown(c, now) )
          ~> ( \/ c \in DOMAIN active_downloads
               \/ ~isLive[c]
               \/ InCooldown(c, now)
               \/ FreeWorkers = {} )

(* The monitor's start has launched a worker for an enabled live channel
   after a cooldown has run out. *)
C32_Witness ==
    /\ outcome = [task |-> "monitor", how |-> "started"]
    /\ \E c \in Channels :
          /\ c \in configured_streamers
          /\ isLive[c]
          /\ c \in DOMAIN active_downloads
          /\ c \in DOMAIN download_cooldowns
          /\ workers[active_downloads[c]].st = "running"

(* C36: every stop_download call returns normally, also when another stop of
   the same channel or the completion handler of its worker removed the job
   while the call slept: no call ends with the KeyError of removing a job
   that is gone. *)
C36_StopReturnsNormally ==
    outcome.how # "keyerror"

(* C37: the completion handler run for a worker removes no Recording Job of
   another worker and installs no cooldown against it: a job that belongs
   to another worker is still there after the handler, with the cooldowns
   as they were. *)
C37_CompletionOwnJobOnly ==
    [][ \A w \in WorkerIds, c \in Channels :
          ( /\ workers[w].st = "posted"
            /\ workers'[w].st = "done"
            /\ c \in DOMAIN active_downloads
            /\ active_downloads[c] # w )
          => ( /\ c \in DOMAIN active_downloads'
               /\ download_cooldowns' = download_cooldowns )
      ]_vars

(* C38: a channel query that failed (get_channel_info answered the empty
   dictionary: timeout, network error, non-200 response or no user data)
   leaves the last-known-live flag of every channel as it was; here for the
   query start_download makes before it launches a worker. *)
C38_FailedQueryKeepsLiveFlag ==
    [][ \A t \in DLTasks, ok \in BOOLEAN :
          StartLive(t, "fail", ok) => isLive' = isLive
      ]_vars

(* C34: no roster update is lost: what a notification wrote to the roster
   entry while a poll tick was suspended on its channel query is still there
   after the poll tick saves. A poll tick whose query failed has no result
   of its own, so its save leaves the entry as it finds it. *)
C34_NoLostRosterUpdate ==
    [][ PollAnswer(FALSE) => roster_entry' = roster_entry ]_vars

(* C39: the subscription tables hold an entry for a channel only if the
   create request for it succeeded: after a notification flip whose create
   request failed, neither table has an entry for the channel. *)
C39_FailedFlipRecordsNothing ==
    [][ \A u \in Volatile, deleted \in BOOLEAN, refused \in BOOLEAN :
          ( /\ SUFlip(FlipConn, u, deleted, refused)
            /\ ~FlipCreated(u, active_subscriptions[u].session_id,
                            TwitchWithout(twitch_subs, {u}, deleted), refused) )
          => ( /\ u \notin DOMAIN active_subscriptions'
               /\ \A sid \in DOMAIN subscriptions_by_session' :
                     u \notin DOMAIN subscriptions_by_session'[sid] )
      ]_vars

(* C40: a channel id is in pending_unsubscribes only while a call of
   remove_streamer_subscription for it is in progress, whichever way the
   earlier calls ended (answer, error, cancellation of the calling task), so
   no call is skipped for an id that no call in progress is removing. *)
C40_PendingOnlyWhileRemoving ==
    \A u \in pending_unsubscribes :
       \/ \E t \in PUConns : putask[t].pc = "remove" /\ putask[t].user = u
       \/ web_call.pc = "remove" /\ web_call.user = u

(* A call for a channel is in progress after an earlier call for the same
   channel was cancelled at its await. *)
C40_Witness ==
    \E t \in PUConns :
       /\ putask[t].pc = "remove"
       /\ putask[t].user \in cancelled_in_remove
       /\ putask[t].user \in pending_unsubscribes

(* C33: once every restart of the push service that was begun has
   finished, exactly one connection-manager task is running, and the
   connection tasks are at most max_connections, each with a connection
   index of its own. *)
C33_OneManagerAfterRestarts ==
    (\A r \in RSCallers : restart_pc[r] \in {"idle", "done"})
       => /\ Cardinality(manager_tasks) = 1
          /\ Cardinality(alive_tasks) <= max_connections
          /\ \A a \in alive_tasks, b \in alive_tasks : a.idx = b.idx => a = b

(* C35: the monitor loop starts a recording only for a channel whose roster
   entry has downloads_enabled true. *)
C35_AutoStartOnlyEnabled ==
    [][ \A c \in ENChannels :
          ( /\ c \notin DOMAIN active_downloads
            /\ c \in DOMAIN active_downloads'
            /\ c \in configured_streamers
            /\ downloads_enabled' = downloads_enabled )
          => ( c \in DOMAIN downloads_enabled /\ downloads_enabled[c] )
      ]_vars

(* C19: when a stream.online notification is handled after a
   stream.offline notification was, the title of the roster entry is again
   the title (other than empty or "Offline") the entry had before the
   stream.offline notification was handled. *)
C19_TitleRoundTrip ==
    [][ ( /\ phase = "ended"
          /\ phase' = "started"
          /\ WorthKeeping(title_before) )
        => roster_entry'.title = title_before
      ]_vars

----------------------------------------------------------------------------
(* Properties of the push service (SpecES): connection status *)

(* C23: a connection whose status is "connected" (and that get_status
   counts as an active connection) has observed a welcome frame: its
   session id is set and is one of the known sessions. *)
C23_ConnectedHasSession ==
    ws_status = "connected" =>
        /\ connection_session_id # NoSession
        /\ connection_session_id \in Range(session_ids)

(* C26: add_streamer_subscription puts the new subscription on the session
   that has the fewest subscriptions among the known sessions with fewer
   than session_limit; when no session has room, no subscription is
   created. *)
C26_LeastLoadedWithRoom ==
    [][ (wtask.pc = "add" /\ wtask'.pc = "idle") =>
          LET u    == wtask.user
              bys1 == RemovedBySession(active_subscriptions,
                                       subscriptions_by_session, u)
              room == {sid \in Range(session_ids) :
                          Count(bys1, sid) < session_limit}
          IN  IF room = {}
              THEN u \notin DOMAIN active_subscriptions'
              ELSE /\ u \in DOMAIN active_subscriptions'
                   /\ active_subscriptions'[u].session_id \in room
                   /\ \A sid \in room :
                         Count(bys1, active_subscriptions'[u].session_id)
                            <= Count(bys1, sid)
      ]_vars

----------------------------------------------------------------------------
(* Properties of the recorder pool (SpecDL): worker exits *)

(* C28: a job is created by start_download only after the fresh query made
   during that call has answered that the channel is live. *)
C28_LaunchAfterFreshLive ==
    [][ \A c \in Channels :
          (c \notin DOMAIN active_downloads /\ c \in DOMAIN active_downloads')
          => outcome'.how = "started"
      ]_vars

(* C29: a worker that leaves its read loop or ends without its cancellation
   signal set posts a completion to the pool, so that no job stays without a
   running worker. *)
C29_ExitReported ==
    [][ \A w \in WorkerIds :
          ( /\ workers[w].st = "running"
            /\ ~workers[w].cancel
            /\ workers'[w].st # "running" )
          => workers'[w].st = "posted"
      ]_vars

----------------------------------------------------------------------------
(* Properties of the token manager's timer (SpecTT) *)

(* C30: after the refresh made by the timer task has failed, the timer is
   armed again and makes a later attempt, without any caller asking for a
   token. *)
C30_FailedRefreshRetried ==
    (refresh_task.st = "done") ~> (refresh_task.st \in {"sleeping", "running"})

====
